---- MODULE Spec2Model ----
(***************************************************************************)
(* Model of the gated proposal/execution loop of the repair agent:         *)
(*   agent/loop.py            run_episode, _advance_phase                  *)
(*   agent/deepseek_agent.py  gate, _allowed_kinds_for_phase, execute,     *)
(*                            _exec_edit, _validate_patch, _repair_patch   *)
(*   learning/strategy_bandit.py  StrategyBandit                           *)
(* Strings the gate inspects character by character (file paths, diffs)   *)
(* are sequences of one-character strings.                                 *)
(***************************************************************************)
EXTENDS Integers, Sequences, FiniteSets, TLC

VARIABLES
    profile,            \* Profile: the configured ceilings and switches
    phase,              \* state.phase
    budget,             \* state.budget: round_idx, patch_attempts, test_runs, model_calls
    notes,              \* state.notes: the keys the loop reads and writes
    touched_files,      \* state.touched_files
    localization_hits,  \* state.localization_hits
    ledger,             \* the events append_event has written in this episode
    pc,                 \* position of the running function
    proposal,           \* local: this round's proposal
    decision,           \* local: this round's gate decision
    exec_result,        \* local: this round's execution result
    gate_calls,         \* calls of gate_fn in the current round
    exec_calls,         \* calls of exec_fn in the current round
    decision2,          \* gate harness: the decision of a second call
    test_history,       \* history: what the episode's test runs and edits have done so far
    validation,         \* _exec_edit: what _validate_patch returned
    attempted,          \* _exec_edit: the application strategies run so far, in order
    worktree,           \* the files of the working tree written by the patch applier
    strategies,         \* StrategyBandit.strategies
    _arms,              \* StrategyBandit._arms: context -> strategy -> StrategyStats
    _global_stats,      \* StrategyBandit._global_stats: strategy -> StrategyStats
    bandit_call,        \* the last call on the bandit and what it returned
    _stats,             \* QuarantineLane._stats: context -> strategy -> QuarantineStats
    _global_quarantine, \* QuarantineLane._global_quarantine
    quarantine_call,    \* the last call on the quarantine lane and what it returned
    db,                 \* the rows of the tables of the shared database
    workers,            \* per task worker: its bandit, its lane, the call it is in
    tasks,              \* run_batch: the input tasks
    parallel_tasks,     \* EvalConfig.parallel_tasks
    semaphore,          \* run_batch: the value of the semaphore
    task_pc,            \* run_batch: the position of each task's coroutine
    raw_results,        \* run_batch: what gather collects, by task index
    results,            \* run_batch: the list it returns
    planner_state,      \* MetaPlanner.planner_state: phase, last_proposal, phase_attempts
    max_phase_attempts, \* MetaPlanner.max_phase_attempts
    state_tracker,      \* what MetaPlanner reads and writes of its StateTracker
    planner_call,       \* the last next_proposal call and what it returned
    patches_issued      \* history: patch proposals issued since the tests last passed

patch_vars == <<validation, attempted, worktree>>

bandit_vars == <<strategies, _arms, _global_stats, bandit_call>>

quarantine_vars == <<_stats, _global_quarantine, quarantine_call>>

store_vars == <<db, workers>>

eval_vars == <<tasks, parallel_tasks, semaphore, task_pc, raw_results, results>>

planner_vars ==
    <<planner_state, max_phase_attempts, state_tracker, planner_call, patches_issued>>

other_vars == <<quarantine_vars, store_vars, eval_vars, planner_vars>>

vars == <<profile, phase, budget, notes, touched_files, localization_hits,
          ledger, pc, proposal, decision, exec_result, gate_calls, exec_calls,
          decision2, test_history, patch_vars, bandit_vars, other_vars>>

-----------------------------------------------------------------------------
(* Bounds of the model *)

MaxRounds == 3
MaxFiles == 2
MaxEpisodeRounds == 6

-----------------------------------------------------------------------------
(* Values *)

None == "None"          \* Python None, and "no value yet" for a local

Phases == {"INGEST", "LOCALIZE", "PLAN", "PATCH_CANDIDATES", "TEST_STAGE",
           "DIAGNOSE", "MINIMIZE", "FINALIZE", "DONE"}

Kinds == {"inspect", "search", "edit", "run_tests", "finalize"}

(* Python str methods on sequences of characters *)

StartsWith(s, p) == Len(s) >= Len(p) /\ SubSeq(s, 1, Len(p)) = p

Contains(s, p) == \E i \in 1..(Len(s) - Len(p) + 1) : SubSeq(s, i, i + Len(p) - 1) = p

LowerChar(c) ==
    CASE c = "A" -> "a" [] c = "B" -> "b" [] c = "C" -> "c" [] c = "D" -> "d"
      [] c = "E" -> "e" [] c = "F" -> "f" [] c = "G" -> "g" [] c = "H" -> "h"
      [] c = "I" -> "i" [] c = "J" -> "j" [] c = "K" -> "k" [] c = "L" -> "l"
      [] c = "M" -> "m" [] c = "N" -> "n" [] c = "O" -> "o" [] c = "P" -> "p"
      [] c = "Q" -> "q" [] c = "R" -> "r" [] c = "S" -> "s" [] c = "T" -> "t"
      [] c = "U" -> "u" [] c = "V" -> "v" [] c = "W" -> "w" [] c = "X" -> "x"
      [] c = "Y" -> "y" [] c = "Z" -> "z" [] OTHER -> c

Lower(s) == [i \in 1..Len(s) |-> LowerChar(s[i])]

NL == "\n"

RECURSIVE SplitFrom(_, _, _, _)
SplitFrom(s, sep, i, cur) ==
    IF i > Len(s) THEN <<cur>>
    ELSE IF s[i] = sep THEN <<cur>> \o SplitFrom(s, sep, i + 1, <<>>)
    ELSE SplitFrom(s, sep, i + 1, Append(cur, s[i]))

\* s.split(sep) for a one-character separator
Split(s, sep) == SplitFrom(s, sep, 1, <<>>)

\* diff.split("\n")
SplitLines(s) == Split(s, NL)

RECURSIVE JoinLines(_)
JoinLines(ls) ==
    IF Len(ls) = 0 THEN <<>>
    ELSE IF Len(ls) = 1 THEN ls[1]
    ELSE ls[1] \o <<NL>> \o JoinLines(Tail(ls))

-----------------------------------------------------------------------------
(* Input strings *)

S_vendor == <<"v","e","n","d","o","r","/">>
S_node_modules == <<"n","o","d","e","_","m","o","d","u","l","e","s","/">>
S_venv == <<".","v","e","n","v","/">>
S_dist == <<"d","i","s","t","/">>
S_build == <<"b","u","i","l","d","/">>
S_target == <<"t","a","r","g","e","t","/">>
S_test == <<"t","e","s","t">>
S_tests == <<"t","e","s","t","s","/">>

F_vendor_lib == S_vendor \o <<"l","i","b",".","p","y">>
F_src_build == <<"s","r","c","/">> \o S_build \o <<"x",".","p","y">>
F_src_a == <<"s","r","c","/","a",".","p","y">>
F_tests_foo == S_tests \o <<"t","e","s","t","_","f","o","o",".","p","y">>
F_src_Test == <<"s","r","c","/","T","e","s","t","A",".","p","y">>
F_myvendor == <<"m","y">> \o S_vendor \o <<"a",".","p","y">>
F_dist_test == S_dist \o <<"t","e","s","t",".","p","y">>

Paths == {F_vendor_lib, F_src_build, F_src_a, F_tests_foo, F_src_Test,
          F_myvendor, F_dist_test}

L_minus_hdr == <<"-","-","-"," ","a","/","f">>
L_plus_hdr == <<"+","+","+"," ","b","/","f">>
L_hunk == <<"@","@">>
L_del == <<"-","x">>
L_add == <<"+","y">>
L_add2 == <<"+","z">>
L_ctx == <<" ","c">>

D_empty == <<>>
D_small == JoinLines(<<L_minus_hdr, L_plus_hdr, L_hunk, L_ctx, L_del, L_add>>)
D_big == JoinLines(<<L_minus_hdr, L_plus_hdr, L_hunk, L_del, L_add, L_add2>>)

-----------------------------------------------------------------------------
(* Proposal inputs: proposal.inputs is a dict; a key is absent, None or a value *)

Absent == [shape |-> "missing", val |-> <<>>]
NoneValue == [shape |-> "none", val |-> <<>>]
Value(v) == [shape |-> "value", val |-> v]

\* inputs.get(key, default)
DictGet(field, default) == IF field.shape = "missing" THEN Value(default) ELSE field

Proposal(kind, rationale, files, diff) ==
    [kind |-> kind, rationale |-> rationale, inputs |-> [files |-> files, diff |-> diff]]

NoProposal == Proposal(None, None, Absent, Absent)

-----------------------------------------------------------------------------
(* GateDecision; a call that raises yields the exception's name in raised *)

Reason(msg, kind, ph, n, m, s, list) ==
    [msg |-> msg, kind |-> kind, phase |-> ph, n |-> n, m |-> m, s |-> s, list |-> list]

GateDecision(accept, reason) == [raised |-> None, accept |-> accept, reason |-> reason]

NoReason == Reason(None, None, None, 0, 0, <<>>, <<>>)

Raises(exc) == [raised |-> exc, accept |-> FALSE, reason |-> NoReason]

NoDecision == [raised |-> "unset", accept |-> FALSE, reason |-> NoReason]

Accepted(d) == d.raised = None /\ d.accept
Rejected(d) == d.raised = None /\ ~d.accept

-----------------------------------------------------------------------------
(* agent/deepseek_agent.py: gate *)

InList(x, list) == \E i \in 1..Len(list) : list[i] = x

AllowedKindsEditInIngest(ph) ==
    CASE ph = "INGEST" -> <<"inspect", "search", "edit">>
      [] ph = "LOCALIZE" -> <<"inspect", "search">>
      [] ph = "PLAN" -> <<"inspect", "search", "edit">>
      [] ph = "PATCH_CANDIDATES" -> <<"edit", "inspect", "search">>
      [] ph = "TEST_STAGE" -> <<"run_tests", "inspect">>
      [] ph = "DIAGNOSE" -> <<"inspect", "search", "edit">>
      [] ph = "MINIMIZE" -> <<"edit", "inspect", "run_tests">>
      [] ph = "FINALIZE" -> <<"finalize", "run_tests">>
      [] ph = "DONE" -> <<>>
      [] OTHER -> <<"inspect">>

_allowed_kinds_for_phase(ph) ==
    CASE ph = "INGEST" -> <<"inspect", "search">>
      [] ph = "LOCALIZE" -> <<"inspect", "search">>
      [] ph = "PLAN" -> <<"inspect", "search", "edit">>
      [] ph = "PATCH_CANDIDATES" -> <<"edit", "inspect", "search">>
      [] ph = "TEST_STAGE" -> <<"run_tests", "inspect">>
      [] ph = "DIAGNOSE" -> <<"inspect", "search", "edit">>
      [] ph = "MINIMIZE" -> <<"edit", "inspect", "run_tests">>
      [] ph = "FINALIZE" -> <<"finalize", "run_tests">>
      [] ph = "DONE" -> <<>>
      [] OTHER -> <<"inspect">>

forbidden_dirs == <<S_vendor, S_node_modules, S_venv, S_dist, S_build, S_target>>

InForbiddenPrefixOnly(f, forbidden) == StartsWith(f, forbidden)

\* f.startswith(forbidden) or f"/{forbidden}" in f
InForbidden(f, forbidden) == StartsWith(f, forbidden) \/ Contains(f, <<"/">> \o forbidden)

HitsForbidden(f) == \E j \in 1..Len(forbidden_dirs) : InForbidden(f, forbidden_dirs[j])

\* the forbidden directory the nested loops return first: first file, then first directory
FirstForbidden(files) ==
    LET i == CHOOSE k \in 1..Len(files) :
                 HitsForbidden(files[k]) /\ \A h \in 1..(k - 1) : ~HitsForbidden(files[h])
        j == CHOOSE k \in 1..Len(forbidden_dirs) :
                 /\ InForbidden(files[i], forbidden_dirs[k])
                 /\ \A h \in 1..(k - 1) : ~InForbidden(files[i], forbidden_dirs[h])
    IN forbidden_dirs[j]

\* len([line for line in diff.split("\n") if line.startswith("+") or line.startswith("-")])
DiffLines(diff) ==
    LET lines == SplitLines(diff)
    IN Cardinality({i \in 1..Len(lines) :
                       StartsWith(lines[i], <<"+">>) \/ StartsWith(lines[i], <<"-">>)})

IsTestPathCaseSensitive(f) == Contains(f, S_test) \/ StartsWith(f, S_tests)

\* "test" in f.lower() or f.startswith("tests/")
IsTestPath(f) == Contains(Lower(f), S_test) \/ StartsWith(f, S_tests)

FirstTestPath(files) ==
    files[CHOOSE k \in 1..Len(files) :
              IsTestPath(files[k]) /\ \A h \in 1..(k - 1) : ~IsTestPath(files[h])]

\* check 4 (lines 585-593), reached when checks 1-3 passed
GateTestModification(pr, p) ==
    IF pr.forbid_test_modifications /\ p.kind = "edit"
    THEN LET files == DictGet(p.inputs.files, <<>>)
         IN IF files.shape = "none" THEN Raises("TypeError")
            ELSE IF \E k \in 1..Len(files.val) : IsTestPath(files.val[k])
            THEN GateDecision(FALSE, Reason("Test modification forbidden by profile",
                                            None, None, 0, 0, FirstTestPath(files.val), <<>>))
            ELSE GateDecision(TRUE, Reason("All constraints satisfied",
                                           None, None, 0, 0, <<>>, <<>>))
    ELSE GateDecision(TRUE, Reason("All constraints satisfied", None, None, 0, 0, <<>>, <<>>))

GateFileConstraintsDiffFirst(pr, p) ==
    IF p.kind = "edit"
    THEN LET files == DictGet(p.inputs.files, <<>>)
             diff == DictGet(p.inputs.diff, <<>>)
         IN IF files.shape = "none" THEN Raises("TypeError")
            ELSE IF Len(files.val) > pr.max_files_touched
            THEN GateDecision(FALSE, Reason("Too many files", None, None,
                                            Len(files.val), pr.max_files_touched, <<>>, <<>>))
            ELSE IF diff.shape = "none" THEN Raises("AttributeError")
            ELSE IF DiffLines(diff.val) > pr.max_diff_lines
            THEN GateDecision(FALSE, Reason("Diff too large", None, None,
                                            DiffLines(diff.val), pr.max_diff_lines, <<>>, <<>>))
            ELSE IF \E k \in 1..Len(files.val) : HitsForbidden(files.val[k])
            THEN GateDecision(FALSE, Reason("Cannot edit forbidden directory", None, None,
                                            0, 0, FirstForbidden(files.val), <<>>))
            ELSE GateTestModification(pr, p)
    ELSE GateTestModification(pr, p)

\* check 3 (lines 557-583): file count, forbidden directories, diff size
GateFileConstraints(pr, p) ==
    IF p.kind = "edit"
    THEN LET files == DictGet(p.inputs.files, <<>>)
             diff == DictGet(p.inputs.diff, <<>>)
         IN IF files.shape = "none" THEN Raises("TypeError")
            ELSE IF Len(files.val) > pr.max_files_touched
            THEN GateDecision(FALSE, Reason("Too many files", None, None,
                                            Len(files.val), pr.max_files_touched, <<>>, <<>>))
            ELSE IF \E k \in 1..Len(files.val) : HitsForbidden(files.val[k])
            THEN GateDecision(FALSE, Reason("Cannot edit forbidden directory", None, None,
                                            0, 0, FirstForbidden(files.val), <<>>))
            ELSE IF diff.shape = "none" THEN Raises("AttributeError")
            ELSE IF DiffLines(diff.val) > pr.max_diff_lines
            THEN GateDecision(FALSE, Reason("Diff too large", None, None,
                                            DiffLines(diff.val), pr.max_diff_lines, <<>>, <<>>))
            ELSE GateTestModification(pr, p)
    ELSE GateTestModification(pr, p)

\* check 2 (lines 542-555): test and patch budgets
GateBudget(pr, st, p) ==
    IF p.kind = "run_tests" /\ st.budget.test_runs >= pr.max_test_runs
    THEN GateDecision(FALSE, Reason("Test budget exhausted", None, None,
                                    st.budget.test_runs, pr.max_test_runs, <<>>, <<>>))
    ELSE IF p.kind = "edit" /\ st.budget.patch_attempts >= pr.max_patch_attempts
    THEN GateDecision(FALSE, Reason("Patch budget exhausted", None, None,
                                    st.budget.patch_attempts, pr.max_patch_attempts, <<>>, <<>>))
    ELSE GateFileConstraints(pr, p)

gate(pr, st, p) ==
    LET allowed_kinds == _allowed_kinds_for_phase(st.phase)
    IN IF ~InList(p.kind, allowed_kinds)
       THEN GateDecision(FALSE, Reason("Action not allowed in phase", p.kind, st.phase,
                                       0, 0, <<>>, allowed_kinds))
       ELSE GateBudget(pr, st, p)


-----------------------------------------------------------------------------
(* Inputs of an episode *)

FileLists == UNION {[1..n -> Paths] : n \in 0..MaxFiles}

Diffs == {D_empty, D_small, D_big}

FileInputs == {Absent, NoneValue} \cup {Value(fl) : fl \in FileLists}
DiffInputs == {Absent, NoneValue} \cup {Value(d) : d \in Diffs}

\* the proposals the gate is examined on
GateProposals ==
    {Proposal("edit", "fix", f, d) : f \in FileInputs, d \in DiffInputs}
    \cup {Proposal(k, "probe", Absent, Absent) :
            k \in (Kinds \ {"edit"}) \cup {"rm_rf"}}

\* the proposals a planner hands to the loop
LoopProposals ==
    {Proposal("edit", "fix", f, d) :
        f \in {NoneValue, Value(<<F_src_a>>), Value(<<F_vendor_lib>>)},
        d \in {Value(D_small)}}
    \cup {Proposal("edit", "fix", Absent, Absent)}
    \cup {Proposal(k, "probe", Absent, Absent) :
            k \in (Kinds \ {"edit"}) \cup {"rm_rf"}}

\* what the planner may leave in notes["next_phase"]: nothing, a phase, or no phase name
NextPhaseRequests == {None, "TEST_STAGE", "FINALIZE", "DONE", "bogus"}

Profiles ==
    [max_rounds : {MaxRounds}, max_patch_attempts : {1}, max_test_runs : {1},
     max_model_calls : {1}, max_files_touched : {1}, max_diff_lines : {4},
     forbid_test_modifications : BOOLEAN]

\* the profiles gate is examined under
GateProfiles ==
    [max_rounds : {MaxRounds}, max_patch_attempts : {1}, max_test_runs : {1},
     max_model_calls : {1}, max_files_touched : {1, 2}, max_diff_lines : {4},
     forbid_test_modifications : BOOLEAN]

BudgetState(r, pa, t, m) ==
    [round_idx |-> r, patch_attempts |-> pa, test_runs |-> t, model_calls |-> m]

NoNotes ==
    [stop_reason |-> None, last_error |-> None, last_gate_reject |-> NoReason,
     last_rejected_proposal |-> [kind |-> None, rationale |-> None],
     next_phase |-> None]

ExecResult(status, summary, test_result) ==
    [status |-> status, summary |-> summary, test_result |-> test_result]

NoExecResult == ExecResult(None, None, None)

\* the record LedgerEvent.now builds; round is the round append_event ran in
LedgerEvent(round, ph, p, d, er, gate_reject) ==
    [round |-> round, accept |-> d.accept, exec_status |-> er.status,
     gate_reject |-> gate_reject]

AgentState == [phase |-> phase, budget |-> budget]

-----------------------------------------------------------------------------
(* agent/deepseek_agent.py: execute, as the loop sees it.  An outcome is the *)
(* ExecResult returned (or an exception) with what the call did to the state *)

Outcome(raised, status, summary, test_result, hits_added, patch_inc) ==
    [raised |-> raised, status |-> status, summary |-> summary,
     test_result |-> test_result, hits_added |-> hits_added, patch_inc |-> patch_inc]

ExecOutcomes(p) ==
    {Outcome(TRUE, "fail", "Execution error", "absent", FALSE, FALSE)} \cup
    CASE p.kind = "inspect" ->
            {Outcome(FALSE, "ok", "inspect", "absent", h, FALSE) : h \in BOOLEAN}
      [] p.kind = "search" ->
            {Outcome(FALSE, "ok", "search", "absent", h, FALSE) : h \in BOOLEAN}
            \cup {Outcome(FALSE, "fail", "search", "absent", FALSE, FALSE)}
      [] p.kind = "edit" ->
            {Outcome(FALSE, "fail", "edit", "absent", FALSE, FALSE)} \cup
            (IF DictGet(p.inputs.diff, <<>>).shape = "value"
                /\ DictGet(p.inputs.diff, <<>>).val # <<>>
             THEN {Outcome(FALSE, "ok", "edit", "absent", FALSE, TRUE)}
             ELSE {})
      [] p.kind = "run_tests" ->
            {Outcome(FALSE, "ok", "Tests passed", "passed", FALSE, FALSE),
             Outcome(FALSE, "fail", "Tests failed", "failed", FALSE, FALSE),
             Outcome(FALSE, "fail", "Test run timed out", "absent", FALSE, FALSE)}
      [] p.kind = "finalize" ->
            {Outcome(FALSE, "ok", "Task finalized", "absent", FALSE, FALSE)}
      [] OTHER ->
            {Outcome(FALSE, "fail", "Unknown proposal kind", "absent", FALSE, FALSE)}

\* what the episode has done to the tree and its tests: no history at the start
NoTestHistory == [passed_in_test_stage |-> FALSE, tree |-> "untested"]

\* lines 140-147, 259-266: an ok run_tests whose test result passed is the last
\* passing test run; an ok edit after it leaves the tree edited since that run
TestHistoryAfter(h, ph, kind, er) ==
    IF kind = "run_tests" /\ er.status = "ok" /\ er.test_result = "passed"
    THEN [passed_in_test_stage |-> h.passed_in_test_stage \/ ph = "TEST_STAGE",
          tree |-> "tested"]
    ELSE IF kind = "edit" /\ er.status = "ok" /\ h.tree = "tested"
    THEN [h EXCEPT !.tree = "edited"]
    ELSE h

-----------------------------------------------------------------------------
(* agent/loop.py: _advance_phase *)

DefaultNextPhaseLocalizeAlwaysPlans(ph, kind, er, hits) ==
    CASE ph = "INGEST" -> "LOCALIZE"
      [] ph = "LOCALIZE" -> "PLAN"
      [] ph = "PLAN" -> "PATCH_CANDIDATES"
      [] ph = "PATCH_CANDIDATES" ->
            IF kind = "edit" /\ er.status = "ok" THEN "TEST_STAGE"
            ELSE IF kind = "edit" /\ er.status = "fail" THEN "PLAN"
            ELSE "PATCH_CANDIDATES"
      [] ph = "TEST_STAGE" ->
            IF er.status = "ok"
            THEN IF er.test_result = "passed" THEN "MINIMIZE" ELSE "DIAGNOSE"
            ELSE "DIAGNOSE"
      [] ph = "DIAGNOSE" -> "PLAN"
      [] ph = "MINIMIZE" -> "FINALIZE"
      [] ph = "FINALIZE" -> IF kind = "finalize" THEN "DONE" ELSE "FINALIZE"
      [] OTHER -> ph

DefaultNextPhaseMinimizesUntested(ph, kind, er, hits) ==
    CASE ph = "INGEST" -> "LOCALIZE"
      [] ph = "LOCALIZE" -> IF hits # <<>> THEN "PLAN" ELSE "LOCALIZE"
      [] ph = "PLAN" -> "PATCH_CANDIDATES"
      [] ph = "PATCH_CANDIDATES" ->
            IF kind = "edit" /\ er.status = "ok" THEN "TEST_STAGE"
            ELSE IF kind = "edit" /\ er.status = "fail" THEN "PLAN"
            ELSE "PATCH_CANDIDATES"
      [] ph = "TEST_STAGE" -> IF er.status = "ok" THEN "MINIMIZE" ELSE "DIAGNOSE"
      [] ph = "DIAGNOSE" -> "PLAN"
      [] ph = "MINIMIZE" -> "FINALIZE"
      [] ph = "FINALIZE" -> IF kind = "finalize" THEN "DONE" ELSE "FINALIZE"
      [] OTHER -> ph

DefaultNextPhase(ph, kind, er, hits) ==
    CASE ph = "INGEST" -> "LOCALIZE"
      [] ph = "LOCALIZE" -> IF hits # <<>> THEN "PLAN" ELSE "LOCALIZE"
      [] ph = "PLAN" -> "PATCH_CANDIDATES"
      [] ph = "PATCH_CANDIDATES" ->
            IF kind = "edit" /\ er.status = "ok" THEN "TEST_STAGE"
            ELSE IF kind = "edit" /\ er.status = "fail" THEN "PLAN"
            ELSE "PATCH_CANDIDATES"
      [] ph = "TEST_STAGE" ->
            IF er.status = "ok"
            THEN IF er.test_result = "passed" THEN "MINIMIZE" ELSE "DIAGNOSE"
            ELSE "DIAGNOSE"
      [] ph = "DIAGNOSE" -> "PLAN"
      [] ph = "MINIMIZE" -> "FINALIZE"
      [] ph = "FINALIZE" -> IF kind = "finalize" THEN "DONE" ELSE "FINALIZE"
      [] OTHER -> ph

AdvancePhaseKeepsOverride(ph, nt, kind, er, hits) ==
    IF nt.next_phase # None
    THEN IF nt.next_phase \in Phases
         THEN [phase |-> nt.next_phase, notes |-> nt, raised |-> None]
         ELSE [phase |-> ph, notes |-> nt, raised |-> "ValueError"]
    ELSE LET nx == DefaultNextPhase(ph, kind, er, hits)
         IN [phase |-> nx,
             notes |-> IF ph = "FINALIZE" /\ kind = "finalize"
                       THEN [nt EXCEPT !.stop_reason = "finalized"] ELSE nt,
             raised |-> None]

\* the state after _advance_phase: [phase, notes, raised]
_advance_phase(ph, nt, kind, er, hits) ==
    IF nt.next_phase # None
    THEN IF nt.next_phase \in Phases
         THEN [phase |-> nt.next_phase, notes |-> [nt EXCEPT !.next_phase = None],
               raised |-> None]
         ELSE [phase |-> ph, notes |-> [nt EXCEPT !.next_phase = None],
               raised |-> "ValueError"]
    ELSE LET nx == DefaultNextPhase(ph, kind, er, hits)
         IN [phase |-> nx,
             notes |-> IF ph = "FINALIZE" /\ kind = "finalize"
                       THEN [nt EXCEPT !.stop_reason = "finalized"] ELSE nt,
             raised |-> None]


-----------------------------------------------------------------------------
(* The patch applier, the learning layer and the batch runner are at rest   *)
(* during an episode                                                       *)

NoValidation == [is_valid |-> FALSE, error |-> <<>>]

PatchIdle == validation = NoValidation /\ attempted = <<>> /\ worktree = {}

NoCall == [op |-> None, context |-> None, strategy |-> None, exclude |-> {},
           method |-> None, result |-> None,
           outcome |-> [success |-> FALSE, regression |-> FALSE,
                        partial |-> [given |-> FALSE, val |-> 0]]]

BanditIdle ==
    /\ strategies = {}
    /\ _arms = <<>>
    /\ _global_stats = <<>>
    /\ bandit_call = NoCall

NoStats == [tries |-> 0, wins |-> 0, regressions |-> 0]

NoQuarantineCall == [op |-> None, strategy |-> None, context |-> None,
                     stats |-> NoStats, result |-> FALSE]

QuarantineIdle ==
    /\ _stats = <<>>
    /\ _global_quarantine = {}
    /\ quarantine_call = NoQuarantineCall

EmptyDb == [strategy_bandit |-> <<>>, strategy_bandit_global |-> <<>>,
            quarantine_stats |-> <<>>, quarantine_global |-> {}]

StoreIdle == db = EmptyDb /\ workers = <<>>

EvalIdle ==
    /\ tasks = <<>>
    /\ parallel_tasks = 1
    /\ semaphore = 0
    /\ task_pc = <<>>
    /\ raw_results = <<>>
    /\ results = <<>>

\* meta_planner.py lines 41-47: a fresh PlannerState
PlannerState == [phase |-> "REPRODUCE", last_proposal |-> None, phase_attempts |-> 0]

\* a StateTracker nothing was recorded in
FreshTracker == [reproduction_confirmed |-> FALSE, failing_tests |-> FALSE,
                 exception_types |-> FALSE, suspect_file |-> FALSE]

NoPlannerCall == [dispatch |-> None, result |-> None, transitions |-> 0,
                  failed_phase_reported |-> FALSE]

PlannerIdle ==
    /\ planner_state = PlannerState
    /\ max_phase_attempts = 0
    /\ state_tracker = FreshTracker
    /\ planner_call = NoPlannerCall
    /\ patches_issued = 0

OtherIdle == QuarantineIdle /\ StoreIdle /\ EvalIdle /\ PlannerIdle

-----------------------------------------------------------------------------
(* agent/loop.py: run_episode *)

Init ==
    /\ profile \in Profiles
    /\ phase \in Phases
    /\ budget = BudgetState(0, 0, 0, 0)
    /\ notes = NoNotes
    /\ touched_files = {}
    /\ localization_hits = <<>>
    /\ ledger = <<>>
    /\ pc = "top"
    /\ proposal = NoProposal
    /\ decision = NoDecision
    /\ exec_result = NoExecResult
    /\ gate_calls = 0
    /\ exec_calls = 0
    /\ decision2 = NoDecision
    /\ test_history = NoTestHistory
    /\ PatchIdle /\ BanditIdle /\ OtherIdle

\* lines 66-79: the loop condition, the round budget check, the round counter
LoopTop ==
    /\ pc = "top"
    /\ IF phase = "DONE"
       THEN /\ pc' = "returned"
            /\ UNCHANGED <<phase, budget, notes, gate_calls, exec_calls>>
       ELSE IF budget.round_idx >= profile.max_rounds
       THEN /\ notes' = [notes EXCEPT !.stop_reason = "max_rounds"]
            /\ phase' = "DONE"
            /\ pc' = "returned"
            /\ UNCHANGED <<budget, gate_calls, exec_calls>>
       ELSE /\ budget' = [budget EXCEPT !.round_idx = @ + 1]
            /\ pc' = "propose"
            /\ gate_calls' = 0
            /\ exec_calls' = 0
            /\ UNCHANGED <<phase, notes>>
    /\ UNCHANGED <<profile, touched_files, localization_hits, ledger, proposal,
                   decision, exec_result, decision2>>
    /\ UNCHANGED <<test_history, patch_vars, bandit_vars, other_vars>>

\* lines 88-89: propose_fn returns a proposal; the planner may leave notes["next_phase"]
Propose(proposals, requests) ==
    /\ pc = "propose"
    /\ \E p \in proposals, np \in requests :
          /\ proposal' = p
          /\ notes' = IF np = None THEN notes ELSE [notes EXCEPT !.next_phase = np]
    /\ pc' = "gate"
    /\ UNCHANGED <<profile, phase, budget, touched_files, localization_hits, ledger,
                   decision, exec_result, gate_calls, exec_calls, decision2>>
    /\ UNCHANGED <<test_history, patch_vars, bandit_vars, other_vars>>

ProposeReturns == Propose(LoopProposals, NextPhaseRequests)

ProposeRaisesKeepsPhase ==
    /\ pc = "propose"
    /\ notes' = [notes EXCEPT !.last_error = "propose error"]
    /\ pc' = "top"
    /\ UNCHANGED <<profile, phase, budget, touched_files, localization_hits, ledger,
                   proposal, decision, exec_result, gate_calls, exec_calls, decision2>>
    /\ UNCHANGED <<test_history, patch_vars, bandit_vars, other_vars>>

\* lines 90-95: propose_fn raises
ProposeRaises ==
    /\ pc = "propose"
    /\ notes' = [notes EXCEPT !.last_error = "propose error"]
    /\ phase' = "DIAGNOSE"
    /\ pc' = "top"
    /\ UNCHANGED <<profile, budget, touched_files, localization_hits, ledger, proposal,
                   decision, exec_result, gate_calls, exec_calls, decision2>>
    /\ UNCHANGED <<test_history, patch_vars, bandit_vars, other_vars>>

\* what gate leaves of the state it was given (it assigns to no field of it)
GateStateMutating(pr, st, p) ==
    [st EXCEPT !.budget.patch_attempts = IF p.kind = "edit" THEN @ + 1 ELSE @]

GateState(pr, st, p) == st

\* line 105: decision = gate_fn(profile, state, proposal); an exception leaves run_episode
GateCall ==
    /\ pc = "gate"
    /\ decision' = gate(profile, AgentState, proposal)
    /\ phase' = GateState(profile, AgentState, proposal).phase
    /\ budget' = GateState(profile, AgentState, proposal).budget
    /\ gate_calls' = gate_calls + 1
    /\ pc' = IF decision'.raised # None THEN "raised" ELSE "decided"
    /\ UNCHANGED <<profile, notes, touched_files, localization_hits, ledger, proposal,
                   exec_result, exec_calls, decision2>>
    /\ UNCHANGED <<test_history, patch_vars, bandit_vars, other_vars>>

RejectNotLogged ==
    /\ pc = "decided"
    /\ ~decision.accept
    /\ notes' = [notes EXCEPT
                    !.last_gate_reject = decision.reason,
                    !.last_rejected_proposal =
                        [kind |-> proposal.kind, rationale |-> proposal.rationale]]
    /\ phase' = IF phase # "DIAGNOSE" THEN "PLAN" ELSE "DIAGNOSE"
    /\ pc' = "top"
    /\ proposal' = NoProposal
    /\ decision' = NoDecision
    /\ UNCHANGED <<profile, budget, touched_files, localization_hits, exec_result,
                   gate_calls, exec_calls, decision2, ledger>>
    /\ UNCHANGED <<test_history, patch_vars, bandit_vars, other_vars>>

RejectThenAdvances ==
    /\ pc = "decided"
    /\ ~decision.accept
    /\ ledger' = Append(ledger,
                        LedgerEvent(budget.round_idx, phase, proposal, decision,
                                    ExecResult("fail", "gate_reject", "absent"), TRUE))
    /\ LET adv == _advance_phase(phase, notes, proposal.kind,
                                ExecResult("fail", "gate_reject", "absent"),
                                localization_hits)
       IN /\ notes' = [adv.notes EXCEPT
                          !.last_gate_reject = decision.reason,
                          !.last_rejected_proposal =
                              [kind |-> proposal.kind, rationale |-> proposal.rationale]]
          /\ phase' = adv.phase
    /\ pc' = "top"
    /\ proposal' = NoProposal
    /\ decision' = NoDecision
    /\ UNCHANGED <<profile, budget, touched_files, localization_hits, exec_result,
                   gate_calls, exec_calls, decision2>>
    /\ UNCHANGED <<test_history, patch_vars, bandit_vars, other_vars>>

\* lines 107-135: the rejected branch
Reject ==
    /\ pc = "decided"
    /\ ~decision.accept
    /\ ledger' = Append(ledger,
                        LedgerEvent(budget.round_idx, phase, proposal, decision,
                                    ExecResult("fail", "gate_reject", "absent"), TRUE))
    /\ notes' = [notes EXCEPT
                    !.last_gate_reject = decision.reason,
                    !.last_rejected_proposal =
                        [kind |-> proposal.kind, rationale |-> proposal.rationale]]
    /\ phase' = IF phase # "DIAGNOSE" THEN "PLAN" ELSE "DIAGNOSE"
    /\ pc' = "top"
    /\ proposal' = NoProposal
    /\ decision' = NoDecision
    /\ UNCHANGED <<profile, budget, touched_files, localization_hits, exec_result,
                   gate_calls, exec_calls, decision2>>
    /\ UNCHANGED <<test_history, patch_vars, bandit_vars, other_vars>>

ExecReachedAlways(d) == TRUE

\* line 107: execution is reached only past the rejected branch
ExecReached(d) == d.accept

\* lines 140-147: exec_fn runs; an exception becomes ExecResult(status="fail")
Execute ==
    /\ pc = "decided"
    /\ ExecReached(decision)
    /\ \E o \in ExecOutcomes(proposal) :
          /\ exec_result' = ExecResult(o.status, o.summary, o.test_result)
          /\ localization_hits' = IF o.hits_added THEN <<"hit">> ELSE localization_hits
          /\ budget' = IF o.patch_inc
                       THEN [budget EXCEPT !.patch_attempts = @ + 1] ELSE budget
    /\ test_history' = TestHistoryAfter(test_history, phase, proposal.kind, exec_result')
    /\ exec_calls' = exec_calls + 1
    /\ pc' = "executed"
    /\ UNCHANGED <<profile, phase, notes, touched_files, ledger, proposal, decision,
                   gate_calls, decision2>>
    /\ UNCHANGED <<patch_vars, bandit_vars, other_vars>>

\* lines 156-165: the budget counters after an executed proposal
UpdatedBudget(b, kind) ==
    [b EXCEPT
        !.test_runs = IF kind = "run_tests" THEN @ + 1 ELSE @,
        !.patch_attempts = IF kind = "edit" THEN @ + 1 ELSE @,
        !.model_calls = IF kind \in {"inspect", "search", "edit", "run_tests"}
                        THEN @ + 1 ELSE @]

FinishCountsOnlySuccess ==
    /\ pc = "executed"
    /\ LET files == DictGet(proposal.inputs.files, <<>>)
           adv == _advance_phase(phase, notes, proposal.kind, exec_result,
                                localization_hits)
       IN IF proposal.kind = "edit" /\ files.shape = "none"
          THEN /\ budget' = [budget EXCEPT !.patch_attempts = @ + 1]
               /\ pc' = "raised"
               /\ UNCHANGED <<phase, notes, touched_files, ledger, proposal, decision,
                              exec_result>>
          ELSE /\ budget' = IF exec_result.status = "ok"
                            THEN UpdatedBudget(budget, proposal.kind) ELSE budget
               /\ touched_files' =
                     IF proposal.kind = "edit"
                     THEN touched_files \cup {files.val[i] : i \in 1..Len(files.val)}
                     ELSE touched_files
               /\ ledger' = Append(ledger,
                                   LedgerEvent(budget.round_idx, phase, proposal,
                                               decision, exec_result, FALSE))
               /\ phase' = adv.phase
               /\ notes' = adv.notes
               /\ pc' = IF adv.raised # None THEN "raised" ELSE "top"
               /\ proposal' = NoProposal
               /\ decision' = NoDecision
               /\ exec_result' = NoExecResult
    /\ UNCHANGED <<profile, localization_hits, gate_calls, exec_calls, decision2>>
    /\ UNCHANGED <<test_history, patch_vars, bandit_vars, other_vars>>

\* lines 155-190: update the counters, append the ledger event, advance the phase
Finish ==
    /\ pc = "executed"
    /\ LET files == DictGet(proposal.inputs.files, <<>>)
           adv == _advance_phase(phase, notes, proposal.kind, exec_result,
                                localization_hits)
       IN IF proposal.kind = "edit" /\ files.shape = "none"
          THEN \* line 162: set(None) raises TypeError
               /\ budget' = [budget EXCEPT !.patch_attempts = @ + 1]
               /\ pc' = "raised"
               /\ UNCHANGED <<phase, notes, touched_files, ledger, proposal, decision,
                              exec_result>>
          ELSE /\ budget' = UpdatedBudget(budget, proposal.kind)
               /\ touched_files' =
                     IF proposal.kind = "edit"
                     THEN touched_files \cup {files.val[i] : i \in 1..Len(files.val)}
                     ELSE touched_files
               /\ ledger' = Append(ledger,
                                   LedgerEvent(budget.round_idx, phase, proposal,
                                               decision, exec_result, FALSE))
               /\ phase' = adv.phase
               /\ notes' = adv.notes
               /\ pc' = IF adv.raised # None THEN "raised" ELSE "top"
               /\ proposal' = NoProposal
               /\ decision' = NoDecision
               /\ exec_result' = NoExecResult
    /\ UNCHANGED <<profile, localization_hits, gate_calls, exec_calls, decision2>>
    /\ UNCHANGED <<test_history, patch_vars, bandit_vars, other_vars>>

\* lines 289-311: check_budgets; run_episode and gate do not call it
check_budgets(st, pr) ==
    /\ st.budget.round_idx < pr.max_rounds
    /\ st.budget.patch_attempts < pr.max_patch_attempts
    /\ st.budget.test_runs < pr.max_test_runs
    /\ st.budget.model_calls < pr.max_model_calls

Next == LoopTop \/ ProposeReturns \/ ProposeRaises \/ GateCall \/ Reject \/ Execute \/ Finish

Spec == Init /\ [][Next]_vars


-----------------------------------------------------------------------------
(* run_episode from Phase.INGEST with a planner that leaves no next_phase *)

\* the profiles of an episode long enough to reach Phase.FINALIZE from Phase.INGEST
EpisodeProfiles ==
    [max_rounds : {MaxEpisodeRounds}, max_patch_attempts : {3}, max_test_runs : {2},
     max_model_calls : {1}, max_files_touched : {1}, max_diff_lines : {4},
     forbid_test_modifications : {TRUE}]

InitEpisode ==
    /\ profile \in EpisodeProfiles
    /\ phase = "INGEST"
    /\ budget = BudgetState(0, 0, 0, 0)
    /\ notes = NoNotes
    /\ touched_files = {}
    /\ localization_hits = <<>>
    /\ ledger = <<>>
    /\ pc = "top"
    /\ proposal = NoProposal
    /\ decision = NoDecision
    /\ exec_result = NoExecResult
    /\ gate_calls = 0
    /\ exec_calls = 0
    /\ decision2 = NoDecision
    /\ test_history = NoTestHistory
    /\ PatchIdle /\ BanditIdle /\ OtherIdle

\* the proposals of the planner of such an episode
EpisodeProposals ==
    {Proposal("edit", "fix", Value(<<F_src_a>>), Value(D_small))}
    \cup {Proposal(k, "probe", Absent, Absent) : k \in {"inspect", "run_tests", "finalize"}}

\* lines 88-89 with a planner that never writes notes["next_phase"]
ProposeNoOverride == Propose(EpisodeProposals, {None})

NextEpisode ==
    LoopTop \/ ProposeNoOverride \/ ProposeRaises \/ GateCall \/ Reject \/ Execute \/ Finish

SpecEpisode == InitEpisode /\ [][NextEpisode]_vars

-----------------------------------------------------------------------------
(* gate as a function: it is called twice on one (profile, state, proposal) *)

GateBudgets == {BudgetState(0, pa, t, 0) : pa \in 0..1, t \in 0..1}

InitGate ==
    /\ profile \in GateProfiles
    /\ phase \in Phases
    /\ budget \in GateBudgets
    /\ proposal \in GateProposals
    /\ notes = NoNotes
    /\ touched_files = {}
    /\ localization_hits = <<>>
    /\ ledger = <<>>
    /\ pc = "gate_first"
    /\ decision = NoDecision
    /\ decision2 = NoDecision
    /\ test_history = NoTestHistory
    /\ exec_result = NoExecResult
    /\ gate_calls = 0
    /\ exec_calls = 0
    /\ PatchIdle /\ BanditIdle /\ OtherIdle

GateFirst ==
    /\ pc = "gate_first"
    /\ decision' = gate(profile, AgentState, proposal)
    /\ phase' = GateState(profile, AgentState, proposal).phase
    /\ budget' = GateState(profile, AgentState, proposal).budget
    /\ gate_calls' = gate_calls + 1
    /\ pc' = "gate_second"
    /\ UNCHANGED <<profile, notes, touched_files, localization_hits, ledger, proposal,
                   exec_result, exec_calls, decision2>>
    /\ UNCHANGED <<test_history, patch_vars, bandit_vars, other_vars>>

GateSecond ==
    /\ pc = "gate_second"
    /\ decision2' = gate(profile, AgentState, proposal)
    /\ phase' = GateState(profile, AgentState, proposal).phase
    /\ budget' = GateState(profile, AgentState, proposal).budget
    /\ gate_calls' = gate_calls + 1
    /\ pc' = "gate_done"
    /\ UNCHANGED <<profile, notes, touched_files, localization_hits, ledger, proposal,
                   exec_result, exec_calls, decision>>
    /\ UNCHANGED <<test_history, patch_vars, bandit_vars, other_vars>>

NextGate == GateFirst \/ GateSecond

SpecGate == InitGate /\ [][NextGate]_vars


-----------------------------------------------------------------------------
(* agent/deepseek_agent.py: _validate_patch, _repair_patch, _exec_edit *)

MaxPatchLines == 3

Whitespace == {" ", "\t", "\n"}

\* s.strip()
Strip(s) ==
    LET idx == {i \in 1..Len(s) : s[i] \notin Whitespace}
    IN IF idx = {} THEN <<>>
       ELSE SubSeq(s, CHOOSE i \in idx : \A j \in idx : i <= j,
                      CHOOSE i \in idx : \A j \in idx : i >= j)

\* s[n:]
DropPrefix(s, n) == SubSeq(s, n + 1, Len(s))

P_add_x == <<"+","x">>
P_add_x_ws == <<"+"," ","x">>
P_blank == <<" ">>

\* the lines the examined diffs are made of
PatchLineSet == {L_minus_hdr, L_plus_hdr, L_hunk, L_ctx, L_del, L_add, P_add_x,
                 P_add_x_ws, P_blank}

PatchDiffs == {JoinLines(ls) : ls \in UNION {[1..n -> PatchLineSet] : n \in 0..MaxPatchLines}}

Msg_empty == <<"E","m","p","t","y"," ","d","i","f","f">>
Msg_no_changes == <<"N","o"," ","c","h","a","n","g","e","s"," ","i","n"," ","d","i","f","f"," ","(","n","o"," ","+"," ","o","r"," ","-"," ","l","i","n","e","s",")">>
Msg_no_op == <<"N","o","-","o","p"," ","p","a","t","c","h",":"," ","r","e","m","o","v","e","d"," ","l","i","n","e","s"," ","i","d","e","n","t","i","c","a","l"," ","t","o"," ","a","d","d","e","d"," ","l","i","n","e","s">>
Msg_whitespace == <<"N","o"," ","m","e","a","n","i","n","g","f","u","l"," ","c","h","a","n","g","e","s"," ","(","o","n","l","y"," ","w","h","i","t","e","s","p","a","c","e"," ","d","i","f","f","e","r","e","n","c","e","s",")">>

Hdr_minus == <<"-","-","-">>
Hdr_plus == <<"+","+","+">>
Hdr_hunk == <<"@","@">>
Hdr_git == <<"d","i","f","f"," ","-","-","g","i","t">>

\* lines 878-882: headers and hunk markers are skipped
IsSkippedLine(line) ==
    \/ StartsWith(line, Hdr_minus) \/ StartsWith(line, Hdr_plus)
    \/ StartsWith(line, Hdr_hunk) \/ StartsWith(line, Hdr_git)

IsRemovalLine(line) ==
    ~IsSkippedLine(line) /\ StartsWith(line, <<"-">>) /\ ~StartsWith(line, Hdr_minus)

IsAdditionLine(line) ==
    ~IsSkippedLine(line) /\ ~IsRemovalLine(line)
    /\ StartsWith(line, <<"+">>) /\ ~StartsWith(line, Hdr_plus)

\* line[1:] of every selected line, in order
Removals(lines) ==
    LET sel == SelectSeq(lines, IsRemovalLine)
    IN [i \in 1..Len(sel) |-> DropPrefix(sel[i], 1)]

Additions(lines) ==
    LET sel == SelectSeq(lines, IsAdditionLine)
    IN [i \in 1..Len(sel) |-> DropPrefix(sel[i], 1)]

\* zip(removals, additions) stops at the shorter list
ZipLen(a, b) == IF Len(a) <= Len(b) THEN Len(a) ELSE Len(b)

ValidatePatchZipOnly(diff) ==
    IF diff = <<>> \/ Strip(diff) = <<>>
    THEN [is_valid |-> FALSE, error |-> Msg_empty]
    ELSE LET removals == Removals(SplitLines(diff))
             additions == Additions(SplitLines(diff))
             has_real_change ==
                 \E i \in 1..ZipLen(removals, additions) :
                     Strip(removals[i]) # Strip(additions[i])
         IN IF removals = <<>> /\ additions = <<>>
            THEN [is_valid |-> FALSE, error |-> Msg_no_changes]
            ELSE IF removals = additions
            THEN [is_valid |-> FALSE, error |-> Msg_no_op]
            ELSE IF ~has_real_change /\ removals # <<>> /\ additions # <<>>
            THEN [is_valid |-> FALSE, error |-> Msg_whitespace]
            ELSE [is_valid |-> TRUE, error |-> <<>>]

\* lines 864-911: (is_valid, error)
_validate_patch(diff) ==
    IF diff = <<>> \/ Strip(diff) = <<>>
    THEN [is_valid |-> FALSE, error |-> Msg_empty]
    ELSE LET removals == Removals(SplitLines(diff))
             additions == Additions(SplitLines(diff))
             has_real_change ==
                 \/ \E i \in 1..ZipLen(removals, additions) :
                       Strip(removals[i]) # Strip(additions[i])
                 \/ Len(removals) # Len(additions)
         IN IF removals = <<>> /\ additions = <<>>
            THEN [is_valid |-> FALSE, error |-> Msg_no_changes]
            ELSE IF removals = additions
            THEN [is_valid |-> FALSE, error |-> Msg_no_op]
            ELSE IF ~has_real_change /\ removals # <<>> /\ additions # <<>>
            THEN [is_valid |-> FALSE, error |-> Msg_whitespace]
            ELSE [is_valid |-> TRUE, error |-> <<>>]

Hdr_minus_a == <<"-","-","-"," ","a","/">>
Hdr_plus_b == <<"+","+","+"," ","b","/">>
DevNull == <<"/","d","e","v","/","n","u","l","l">>

IsFileHeader(line) == StartsWith(line, Hdr_plus_b) \/ StartsWith(line, Hdr_minus_a)

\* lines 517-525: the set of paths named by the "--- a/" and "+++ b/" lines
_extract_files_from_diff(diff) ==
    LET lines == SplitLines(diff)
    IN {Strip(DropPrefix(lines[i], 6)) :
          i \in {k \in 1..Len(lines) :
                    /\ IsFileHeader(lines[k])
                    /\ Strip(DropPrefix(lines[k], 6)) # <<>>
                    /\ Strip(DropPrefix(lines[k], 6)) # DevNull}}

\* line[4:].strip().split("\t")[0] without a leading "a/" or "b/"
HeaderPath(line, prefix) ==
    LET p == Split(Strip(DropPrefix(line, 4)), "\t")[1]
    IN IF StartsWith(p, prefix) THEN DropPrefix(p, 2) ELSE p

\* lines 995-1029: a missing "diff --git" line is rebuilt and the diff ends in a newline
_repair_patch(diff) ==
    LET lines == SplitLines(diff)
        header ==
            IF Len(lines) >= 2 /\ StartsWith(lines[1], Hdr_minus)
               /\ StartsWith(lines[2], Hdr_plus)
            THEN <<Hdr_git \o <<" ", "a", "/">> \o HeaderPath(lines[1], <<"a", "/">>)
                   \o <<" ", "b", "/">> \o HeaderPath(lines[2], <<"b", "/">>)>>
            ELSE <<>>
        result == JoinLines(header \o lines)
    IN IF result # <<>> /\ result[Len(result)] = NL THEN result ELSE Append(result, NL)

\* _try_structured_edit, lines 933-940: the file of the last "--- a/" or "+++ b/" line
CurrentFile(diff) ==
    LET lines == SplitLines(diff)
        hdrs == {k \in 1..Len(lines) : IsFileHeader(lines[k])}
    IN IF hdrs = {} THEN <<>>
       ELSE Split(DropPrefix(lines[CHOOSE k \in hdrs : \A h \in hdrs : h <= k], 6), "\t")[1]

\* the edit proposals _exec_edit is examined on
PatchProposals ==
    {Proposal("edit", "fix", f, d) :
        f \in {Absent, Value(<<F_src_a>>)},
        d \in {Absent, NoneValue} \cup {Value(x) : x \in PatchDiffs}}

InitPatch ==
    /\ profile = CHOOSE p \in Profiles : p.forbid_test_modifications
    /\ phase = "PATCH_CANDIDATES"
    /\ budget = BudgetState(1, 0, 0, 0)
    /\ proposal \in PatchProposals
    /\ notes = NoNotes
    /\ touched_files = {}
    /\ localization_hits = <<>>
    /\ ledger = <<>>
    /\ pc = "edit_start"
    /\ decision = NoDecision
    /\ decision2 = NoDecision
    /\ test_history = NoTestHistory
    /\ exec_result = NoExecResult
    /\ gate_calls = 0
    /\ exec_calls = 0
    /\ PatchIdle /\ BanditIdle /\ OtherIdle

\* what _exec_edit leaves alone in every step
EditFrame ==
    UNCHANGED <<profile, phase, notes, touched_files, localization_hits, ledger,
                proposal, decision, decision2, test_history, gate_calls, exec_calls, bandit_vars,
                other_vars>>

\* _validate_patch called on its own
ValidatePatchCall ==
    /\ pc = "edit_start"
    /\ proposal.inputs.diff.shape = "value"
    /\ validation' = _validate_patch(proposal.inputs.diff.val)
    /\ pc' = "validated"
    /\ UNCHANGED <<budget, exec_result, attempted, worktree>>
    /\ EditFrame

\* the diff after line 801
RepairedDiff == _repair_patch(DictGet(proposal.inputs.diff, <<>>).val)

EditReturns(status, summary) ==
    /\ exec_result' = ExecResult(status, summary, "absent")
    /\ pc' = "edit_done"

ExecEditStartSkipsValidation ==
    /\ pc = "edit_start"
    /\ LET diff == DictGet(proposal.inputs.diff, <<>>)
       IN IF diff.shape = "none" \/ diff.val = <<>>
          THEN /\ EditReturns("fail", "No diff provided")
               /\ UNCHANGED validation
          ELSE /\ validation' = [is_valid |-> TRUE, error |-> <<>>]
               /\ pc' = "edit_check"
               /\ UNCHANGED exec_result
    /\ UNCHANGED <<budget, attempted, worktree>>
    /\ EditFrame

\* lines 784-798: no diff, or a diff _validate_patch refuses
ExecEditStart ==
    /\ pc = "edit_start"
    /\ LET diff == DictGet(proposal.inputs.diff, <<>>)
       IN IF diff.shape = "none" \/ diff.val = <<>>
          THEN /\ EditReturns("fail", "No diff provided")
               /\ UNCHANGED validation
          ELSE /\ validation' = _validate_patch(diff.val)
               /\ IF validation'.is_valid
                  THEN pc' = "edit_check" /\ UNCHANGED exec_result
                  ELSE EditReturns("fail", "Invalid patch")
    /\ UNCHANGED <<budget, attempted, worktree>>
    /\ EditFrame

\* lines 800-815: repair, write the patch file, git apply --check; git is the
\* environment: it may accept or refuse any patch that names a file
GitApplyCheck ==
    /\ pc = "edit_check"
    /\ attempted' = Append(attempted, "git_apply_check")
    /\ \/ /\ _extract_files_from_diff(RepairedDiff) # {}
          /\ pc' = "edit_apply"
          /\ UNCHANGED exec_result
       \/ /\ pc' = "edit_direct"
          /\ UNCHANGED exec_result
       \/ EditReturns("fail", "Edit failed")
    /\ UNCHANGED <<budget, validation, worktree>>
    /\ EditFrame

\* lines 841-859: git apply --3way, reached when the check passed
GitApply3way ==
    /\ pc = "edit_apply"
    /\ attempted' = Append(attempted, "git_apply_3way")
    /\ \/ /\ worktree' = worktree \cup _extract_files_from_diff(RepairedDiff)
          /\ budget' = [budget EXCEPT !.patch_attempts = @ + 1]
          /\ EditReturns("ok", "Patch applied successfully")
       \/ /\ \E written \in SUBSET _extract_files_from_diff(RepairedDiff) :
                worktree' = worktree \cup written
          /\ EditReturns("fail", "Patch apply failed")
          /\ UNCHANGED budget
       \/ /\ EditReturns("fail", "Edit failed")
          /\ UNCHANGED <<budget, worktree>>
    /\ UNCHANGED validation
    /\ EditFrame

\* lines 825-828 and 1032-1103: _try_direct_edit, reached when the check failed
TryDirectEdit ==
    /\ pc = "edit_direct"
    /\ attempted' = Append(attempted, "direct_edit")
    /\ LET files == _extract_files_from_diff(RepairedDiff)
           lines == SplitLines(RepairedDiff)
       IN \/ /\ files # {}
             /\ Additions(lines) # <<>> \/ Removals(lines) # <<>>
             /\ \E fname \in files : worktree' = worktree \cup {fname}
             /\ budget' = [budget EXCEPT !.patch_attempts = @ + 1]
             /\ EditReturns("ok", "Applied direct edit")
          \/ /\ pc' = "edit_structured"
             /\ UNCHANGED <<budget, worktree, exec_result>>
    /\ UNCHANGED validation
    /\ EditFrame

\* lines 830-839 and 914-992: _try_structured_edit, then the failure of the check
TryStructuredEdit ==
    /\ pc = "edit_structured"
    /\ attempted' = Append(attempted, "structured_edit")
    /\ LET given == DictGet(proposal.inputs.files, <<>>)
           named == given.shape = "value" /\ given.val # <<>>
           files == IF named THEN {given.val[i] : i \in 1..Len(given.val)}
                    ELSE _extract_files_from_diff(RepairedDiff)
           lines == SplitLines(RepairedDiff)
           current_file == CurrentFile(RepairedDiff)
       IN \/ /\ files # {}
             /\ current_file # <<>>
             /\ Additions(lines) # <<>> \/ Removals(lines) # <<>>
             /\ worktree' = worktree \cup {current_file}
             /\ budget' = [budget EXCEPT !.patch_attempts = @ + 1]
             /\ EditReturns("ok", "Applied structured edit")
          \/ /\ EditReturns("fail", "Patch check failed")
             /\ UNCHANGED <<budget, worktree>>
    /\ UNCHANGED validation
    /\ EditFrame

NextPatch ==
    \/ ValidatePatchCall \/ ExecEditStart \/ GitApplyCheck \/ GitApply3way
    \/ TryDirectEdit \/ TryStructuredEdit

SpecPatch == InitPatch /\ [][NextPatch]_vars

-----------------------------------------------------------------------------
(* rfsn_controller/learning/strategy_bandit.py: StrategyBandit *)
(* Rewards, alpha, beta and total_reward are counted in halves: 2 is 1.0.   *)

MaxUpdates == 2

AllArms == {"guard_none", "boundary_check", "type_check"}

Contexts == {"fp1", "fp2"}

Methods == {"thompson", "ucb", "epsilon_greedy"}

\* the exclude arguments select is examined on
Excludes == {{}, {"guard_none"}, {"guard_none", "boundary_check"}, AllArms}

InitialAlpha == 2
InitialBeta == 2
RewardSuccess == 2
RewardRegression == -1

\* StrategyStats()
StrategyStats ==
    [wins |-> 0, tries |-> 0, regressions |-> 0, total_reward |-> 0,
     alpha |-> InitialAlpha, beta |-> InitialBeta]

\* partial_reward: None or a float
NoPartial == [given |-> FALSE, val |-> 0]
Partial(v) == [given |-> TRUE, val |-> v]
\* the (success, regression, partial_reward) arguments update is examined on
Outcomes ==
    {[success |-> TRUE, regression |-> FALSE, partial |-> NoPartial],
     [success |-> TRUE, regression |-> TRUE, partial |-> NoPartial],
     [success |-> FALSE, regression |-> TRUE, partial |-> Partial(1)],
     [success |-> FALSE, regression |-> FALSE, partial |-> NoPartial],
     [success |-> FALSE, regression |-> FALSE, partial |-> Partial(1)],
     [success |-> FALSE, regression |-> FALSE, partial |-> Partial(-2)]}

BanditCall(op, ctx, strategy, exclude, method, result) ==
    [NoCall EXCEPT !.op = op, !.context = ctx, !.strategy = strategy,
                   !.exclude = exclude, !.method = method, !.result = result]

\* a call of update with its arguments and how it ended
UpdateCall(ctx, strategy, o, result) ==
    [BanditCall("update", ctx, strategy, {}, None, result) EXCEPT !.outcome = o]

\* lines 305-311: the arms of a context, created on first use from the
\* strategies registered at that moment
_get_context_arms(arms, ctx) ==
    IF ctx \in DOMAIN arms THEN arms
    ELSE [c \in DOMAIN arms \cup {ctx} |->
             IF c = ctx THEN [s \in strategies |-> StrategyStats] ELSE arms[c]]

\* lines 332-336: the non-excluded strategies, or all of them when none is left
Candidates(exclude) ==
    IF strategies \ exclude = {} THEN strategies ELSE strategies \ exclude

SumTries(stats) ==
    LET RECURSIVE Sum(_)
        Sum(S) == IF S = {} THEN 0
                  ELSE LET s == CHOOSE x \in S : TRUE
                       IN stats[s].tries + Sum(S \ {s})
    IN Sum(DOMAIN stats)

\* max(candidates, key=mean_reward): alpha / (alpha + beta), compared crosswise
Greedy(arms, cands) ==
    {s \in cands :
        \A t \in cands :
            arms[s].alpha * (arms[t].alpha + arms[t].beta)
                >= arms[t].alpha * (arms[s].alpha + arms[s].beta)}

SelectChoicesNoPriority(arms, cands, method) ==
    IF \E s \in cands : s \notin DOMAIN arms THEN {"KeyError"}
    ELSE IF method = "thompson" THEN cands
    ELSE IF method = "ucb"
    THEN IF \E s \in strategies : s \notin DOMAIN arms THEN {"KeyError"} ELSE cands
    ELSE cands \cup Greedy(arms, cands)

\* lines 338-372: the arms select may return. An unexplored candidate comes
\* first; otherwise the Beta samples of thompson and the coin of
\* epsilon_greedy can favour any candidate, and the floating-point UCB scores
\* are not computed: every candidate is a possible result.
SelectChoices(arms, cands, method) ==
    IF \E s \in cands : s \notin DOMAIN arms THEN {"KeyError"}
    ELSE IF \E s \in cands : arms[s].tries = 0
    THEN {s \in cands : arms[s].tries = 0}
    ELSE IF method = "thompson" THEN cands
    ELSE IF method = "ucb"
    THEN IF \E s \in strategies : s \notin DOMAIN arms THEN {"KeyError"} ELSE cands
    ELSE cands \cup Greedy(arms, cands)

UpdatedStatsPenaltyOnAlpha(st, success, regression, partial) ==
    LET reward == IF success THEN RewardSuccess
                  ELSE IF regression THEN RewardRegression
                  ELSE IF partial.given THEN partial.val ELSE 0
    IN [wins |-> st.wins + (IF success THEN 1 ELSE 0),
        tries |-> st.tries + 1,
        regressions |-> st.regressions + (IF ~success /\ regression THEN 1 ELSE 0),
        total_reward |-> st.total_reward + reward,
        alpha |-> st.alpha + reward,
        beta |-> st.beta]

\* lines 399-422: one StrategyStats after an outcome
UpdatedStats(st, success, regression, partial) ==
    LET reward == IF success THEN RewardSuccess
                  ELSE IF regression THEN RewardRegression
                  ELSE IF partial.given THEN partial.val ELSE 0
    IN [wins |-> st.wins + (IF success THEN 1 ELSE 0),
        tries |-> st.tries + 1,
        regressions |-> st.regressions + (IF ~success /\ regression THEN 1 ELSE 0),
        total_reward |-> st.total_reward + reward,
        alpha |-> IF reward > 0 THEN st.alpha + reward ELSE st.alpha,
        beta |-> IF reward > 0 THEN st.beta ELSE st.beta - reward]

\* what the bandit leaves alone
BanditFrame ==
    UNCHANGED <<profile, phase, budget, notes, touched_files, localization_hits,
                ledger, proposal, decision, exec_result, gate_calls, exec_calls,
                decision2, test_history, patch_vars, other_vars>>

\* lines 130-146: StrategyBandit(strategies), without a database
InitBandit ==
    /\ profile = CHOOSE p \in Profiles : p.forbid_test_modifications
    /\ phase = "PLAN"
    /\ budget = BudgetState(0, 0, 0, 0)
    /\ notes = NoNotes
    /\ touched_files = {}
    /\ localization_hits = <<>>
    /\ ledger = <<>>
    /\ pc = "bandit"
    /\ proposal = NoProposal
    /\ decision = NoDecision
    /\ decision2 = NoDecision
    /\ test_history = NoTestHistory
    /\ exec_result = NoExecResult
    /\ gate_calls = 0
    /\ exec_calls = 0
    /\ PatchIdle /\ OtherIdle
    /\ strategies \in {{"guard_none", "boundary_check"}, AllArms}
    /\ _arms = <<>>
    /\ _global_stats = [s \in strategies |-> StrategyStats]
    /\ bandit_call = NoCall

\* lines 313-372: select(context_key, exclude, method)
Select ==
    /\ pc = "bandit"
    /\ pc' = "bandit_returned"
    /\ \E ctx \in Contexts, exclude \in Excludes, method \in Methods :
          LET arms == _get_context_arms(_arms, ctx)
          IN /\ _arms' = arms
             /\ \E r \in SelectChoices(arms[ctx], Candidates(exclude), method) :
                   bandit_call' = BanditCall("select", ctx, None, exclude, method, r)
    /\ UNCHANGED <<strategies, _global_stats>>
    /\ BanditFrame

\* lines 374-436: update(context_key, strategy, success, regression, partial_reward)
Update ==
    /\ pc = "bandit"
    /\ pc' = "bandit_returned"
    /\ SumTries(_global_stats) < MaxUpdates
    /\ \E ctx \in Contexts, s \in AllArms, o \in Outcomes :
          IF s \notin strategies
          THEN /\ bandit_call' = UpdateCall(ctx, s, o, "unknown")
               /\ UNCHANGED <<_arms, _global_stats>>
          ELSE LET arms == _get_context_arms(_arms, ctx)
               IN IF s \notin DOMAIN arms[ctx]
                  THEN /\ bandit_call' = UpdateCall(ctx, s, o, "KeyError")
                       /\ _arms' = arms
                       /\ UNCHANGED _global_stats
                  ELSE /\ _arms' = [arms EXCEPT ![ctx][s] =
                                       UpdatedStats(@, o.success, o.regression, o.partial)]
                       /\ _global_stats' = [_global_stats EXCEPT ![s] =
                                               UpdatedStats(@, o.success, o.regression, o.partial)]
                       /\ bandit_call' = UpdateCall(ctx, s, o, "done")
    /\ UNCHANGED strategies
    /\ BanditFrame

\* lines 465-474: register_strategy(strategy)
RegisterStrategy ==
    /\ pc = "bandit"
    /\ pc' = "bandit_returned"
    /\ \E s \in AllArms :
          /\ bandit_call' = BanditCall("register_strategy", None, s, {}, None, "done")
          /\ IF s \in strategies
             THEN UNCHANGED <<strategies, _global_stats>>
             ELSE /\ strategies' = strategies \cup {s}
                  /\ _global_stats' = [t \in strategies \cup {s} |->
                                          IF t = s THEN StrategyStats ELSE _global_stats[t]]
    /\ UNCHANGED _arms
    /\ BanditFrame

\* the caller has taken the result and may call again
CallReturned ==
    /\ pc = "bandit_returned"
    /\ pc' = "bandit"
    /\ bandit_call' = NoCall
    /\ UNCHANGED <<strategies, _arms, _global_stats>>
    /\ BanditFrame

NextBandit == Select \/ Update \/ RegisterStrategy \/ CallReturned

SpecBandit == InitBandit /\ [][NextBandit]_vars

-----------------------------------------------------------------------------
(* learning/quarantine.py: the quarantine decision and QuarantineLane *)

MaxOutcomes == 5
MaxTries == 6

QStrategies == {"guard_none", "boundary_check"}
QContexts == {"fp1", "fp2"}

\* lines 27-35: a fresh QuarantineStats; the timestamp is None or the time of
\* the call ("now")
QuarantineStats == [total_tries |-> 0, successes |-> 0, regressions |-> 0,
                    last_regression_timestamp |-> None]

\* lines 50-64: QuarantineConfig defaults; the maximum rate 0.3 in tenths
min_successes == 2
max_regression_rate == 3
min_tries_for_rate == 5

\* the rate check applied only above min_tries_for_rate
is_quarantinedStrictRate(stats) ==
    IF stats.tries < min_successes THEN TRUE
    ELSE IF stats.wins = 0 THEN TRUE
    ELSE IF stats.tries > min_tries_for_rate
            /\ 10 * stats.regressions > max_regression_rate * stats.tries THEN TRUE
    ELSE FALSE

\* lines 67-100: is_quarantined(stats, config) with the default config;
\* regressions / tries > 0.3 compared as 10 * regressions > 3 * tries
is_quarantined(stats) ==
    IF stats.tries < min_successes THEN TRUE
    ELSE IF stats.wins = 0 THEN TRUE
    ELSE IF stats.tries >= min_tries_for_rate
            /\ 10 * stats.regressions > max_regression_rate * stats.tries THEN TRUE
    ELSE FALSE

\* lines 265-270: the dict the lane hands to is_quarantined
StatsDict(st) == [tries |-> st.total_tries, wins |-> st.successes,
                  regressions |-> st.regressions]

\* the context statistics consulted before the global set
QuarantineLane_is_quarantinedContextFirst(stats, global_quarantine, strategy, context) ==
    IF context # None /\ context \in DOMAIN stats /\ strategy \in DOMAIN stats[context]
    THEN is_quarantined(StatsDict(stats[context][strategy]))
    ELSE strategy \in global_quarantine

\* lines 243-274: QuarantineLane.is_quarantined(strategy, context)
QuarantineLane_is_quarantined(stats, global_quarantine, strategy, context) ==
    IF strategy \in global_quarantine THEN TRUE
    ELSE IF context # None /\ context \in DOMAIN stats
            /\ strategy \in DOMAIN stats[context]
         THEN is_quarantined(StatsDict(stats[context][strategy]))
    ELSE FALSE

\* lines 235-241: _get_stats creates the context and the entry when missing
_get_stats(stats, context, strategy) ==
    LET withCtx == IF context \in DOMAIN stats THEN stats
                   ELSE [c \in DOMAIN stats \cup {context} |->
                            IF c = context THEN <<>> ELSE stats[c]]
    IN IF strategy \in DOMAIN withCtx[context] THEN withCtx
       ELSE [withCtx EXCEPT ![context] =
                [s \in DOMAIN withCtx[context] \cup {strategy} |->
                    IF s = strategy THEN QuarantineStats ELSE withCtx[context][s]]]

\* lines 329-334: the statistics after one outcome
RecordedStats(st, success, regression) ==
    [total_tries |-> st.total_tries + 1,
     successes |-> st.successes + (IF success THEN 1 ELSE 0),
     regressions |-> st.regressions + (IF regression THEN 1 ELSE 0),
     last_regression_timestamp |-> IF regression THEN "now"
                                   ELSE st.last_regression_timestamp]

\* lines 326-353: what record_outcome returns for the statistics it found
RecordOutcomeResult(stats, global_quarantine, strategy, context, success, regression) ==
    LET st0 == _get_stats(stats, context, strategy)
        st1 == [st0 EXCEPT ![context][strategy] = RecordedStats(@, success, regression)]
        was_quarantined == QuarantineLane_is_quarantined(st0, global_quarantine, strategy, context)
        now_quarantined == QuarantineLane_is_quarantined(st1, global_quarantine, strategy, context)
    IN [stats |-> st1, result |-> now_quarantined /\ ~was_quarantined]

QuarantineCall(op, strategy, context, result) ==
    [NoQuarantineCall EXCEPT !.op = op, !.strategy = strategy, !.context = context,
                             !.result = result]

\* the tries recorded in the lane, over all contexts and strategies
RECURSIVE SumOver(_, _)
SumOver(f, S) ==
    IF S = {} THEN 0
    ELSE LET x == CHOOSE x \in S : TRUE IN f[x] + SumOver(f, S \ {x})

TotalTries(stats) ==
    SumOver([c \in DOMAIN stats |->
                SumOver([s \in DOMAIN stats[c] |-> stats[c][s].total_tries],
                        DOMAIN stats[c])],
            DOMAIN stats)

\* what the lane leaves alone
QuarantineFrame ==
    UNCHANGED <<profile, phase, budget, notes, touched_files, localization_hits,
                ledger, proposal, decision, exec_result, gate_calls, exec_calls,
                decision2, test_history, patch_vars, bandit_vars, store_vars, eval_vars,
                planner_vars>>

\* the loop at rest
LoopIdle ==
    /\ profile = CHOOSE p \in Profiles : p.forbid_test_modifications
    /\ phase = "PLAN"
    /\ budget = BudgetState(0, 0, 0, 0)
    /\ notes = NoNotes
    /\ touched_files = {}
    /\ localization_hits = <<>>
    /\ ledger = <<>>
    /\ proposal = NoProposal
    /\ decision = NoDecision
    /\ decision2 = NoDecision
    /\ test_history = NoTestHistory
    /\ exec_result = NoExecResult
    /\ gate_calls = 0
    /\ exec_calls = 0

\* lines 120-150: QuarantineLane(), without a database
InitQuarantine ==
    /\ LoopIdle /\ PatchIdle /\ BanditIdle /\ StoreIdle /\ EvalIdle /\ PlannerIdle
    /\ pc = "lane"
    /\ _stats = <<>>
    /\ _global_quarantine = {}
    /\ quarantine_call = NoQuarantineCall

\* lines 67-100: the module-level function applied to a statistics dict; it
\* reads nothing of the lane, so it is exercised beside a fresh lane
IsQuarantinedStats ==
    /\ pc = "lane"
    /\ _stats = <<>> /\ _global_quarantine = {}
    /\ pc' = "lane_returned"
    /\ \E t \in 0..MaxTries, w \in 0..MaxTries, r \in 0..MaxTries :
          LET d == [tries |-> t, wins |-> w, regressions |-> r]
          IN quarantine_call' =
                [QuarantineCall("is_quarantined_stats", None, None, is_quarantined(d))
                    EXCEPT !.stats = d]
    /\ UNCHANGED <<_stats, _global_quarantine>>
    /\ QuarantineFrame

\* lines 243-274: is_quarantined(strategy, context); context may be None
IsQuarantined ==
    /\ pc = "lane"
    /\ pc' = "lane_returned"
    /\ \E s \in QStrategies, c \in QContexts \cup {None} :
          quarantine_call' =
             QuarantineCall("is_quarantined", s, c,
                            QuarantineLane_is_quarantined(_stats, _global_quarantine, s, c))
    /\ UNCHANGED <<_stats, _global_quarantine>>
    /\ QuarantineFrame

\* lines 304-353: record_outcome(strategy, context, success, regression)
RecordOutcome ==
    /\ pc = "lane"
    /\ pc' = "lane_returned"
    /\ TotalTries(_stats) < MaxOutcomes
    /\ \E s \in QStrategies, c \in QContexts, success \in BOOLEAN, regression \in BOOLEAN :
          LET r == RecordOutcomeResult(_stats, _global_quarantine, s, c, success, regression)
          IN /\ _stats' = r.stats
             /\ quarantine_call' = QuarantineCall("record_outcome", s, c, r.result)
    /\ UNCHANGED _global_quarantine
    /\ QuarantineFrame

\* lines 355-363: force_quarantine(strategy)
ForceQuarantine ==
    /\ pc = "lane"
    /\ pc' = "lane_returned"
    /\ \E s \in QStrategies :
          /\ _global_quarantine' = _global_quarantine \cup {s}
          /\ quarantine_call' = QuarantineCall("force_quarantine", s, None, FALSE)
    /\ UNCHANGED _stats
    /\ QuarantineFrame

\* lines 365-373: release_from_quarantine(strategy)
ReleaseFromQuarantine ==
    /\ pc = "lane"
    /\ pc' = "lane_returned"
    /\ \E s \in QStrategies :
          /\ _global_quarantine' = _global_quarantine \ {s}
          /\ quarantine_call' = QuarantineCall("release_from_quarantine", s, None, FALSE)
    /\ UNCHANGED _stats
    /\ QuarantineFrame

\* the caller has the result; the next call can start
LaneReturned ==
    /\ pc = "lane_returned"
    /\ pc' = "lane"
    /\ quarantine_call' = NoQuarantineCall
    /\ UNCHANGED <<_stats, _global_quarantine>>
    /\ QuarantineFrame

NextQuarantine ==
    \/ IsQuarantinedStats
    \/ IsQuarantined
    \/ RecordOutcome
    \/ ForceQuarantine
    \/ ReleaseFromQuarantine
    \/ LaneReturned

SpecQuarantine == InitQuarantine /\ [][NextQuarantine]_vars

-----------------------------------------------------------------------------
(* Persistence: task workers, each with its own StrategyBandit and          *)
(* QuarantineLane, opened on one shared database                            *)

MaxStoreCalls == 3

Workers == {"w1", "w2"}
StoreStrategies == {"guard_none", "boundary_check"}
StoreContexts == {"fp1"}
Keys == StoreContexts \X StoreStrategies

StoreOutcomes ==
    {[success |-> TRUE, regression |-> FALSE, partial |-> NoPartial],
     [success |-> FALSE, regression |-> TRUE, partial |-> NoPartial],
     [success |-> FALSE, regression |-> FALSE, partial |-> Partial(1)]}

\* d with row put at table[ctx][s]: INSERT ... ON CONFLICT DO UPDATE
Upsert(table, ctx, s, row) ==
    LET withCtx == IF ctx \in DOMAIN table THEN table
                   ELSE [c \in DOMAIN table \cup {ctx} |->
                            IF c = ctx THEN <<>> ELSE table[c]]
    IN [withCtx EXCEPT ![ctx] =
           [t \in DOMAIN withCtx[ctx] \cup {s} |->
               IF t = s THEN row ELSE withCtx[ctx][t]]]

\* strategy_bandit.py lines 242-272: the row of one context/strategy pair
_persist_one(d, context_key, strategy, stats) ==
    [d EXCEPT !.strategy_bandit = Upsert(@, context_key, strategy, stats)]

\* strategy_bandit.py lines 274-303: the global row of a strategy
_persist_global(d, strategy, stats) ==
    [d EXCEPT !.strategy_bandit_global =
        [t \in DOMAIN @ \cup {strategy} |-> IF t = strategy THEN stats ELSE @[t]]]

\* quarantine.py lines 206-233: the row of one context/strategy pair
_persist_stats(d, context, strategy, stats) ==
    [d EXCEPT !.quarantine_stats =
        Upsert(@, context, strategy,
               [total_tries |-> stats.total_tries, successes |-> stats.successes,
                regressions |-> stats.regressions,
                last_regression_ts |-> stats.last_regression_timestamp])]

\* the rows of the per-context table are loaded, the global rows are not
Bandit_load_from_dbContextOnly(d) ==
    LET rows == d.strategy_bandit
        ctxs == {c \in DOMAIN rows : DOMAIN rows[c] \cap strategies # {}}
    IN [arms |-> [c \in ctxs |->
                    [s \in strategies |->
                        IF s \in DOMAIN rows[c] THEN rows[c][s] ELSE StrategyStats]],
        global |-> [s \in strategies |-> StrategyStats]]

\* strategy_bandit.py lines 202-240: _load_from_db on a fresh bandit; rows of
\* unknown strategies are skipped, a context with a row gets every arm
Bandit_load_from_db(d) ==
    LET rows == d.strategy_bandit
        ctxs == {c \in DOMAIN rows : DOMAIN rows[c] \cap strategies # {}}
    IN [arms |-> [c \in ctxs |->
                    [s \in strategies |->
                        IF s \in DOMAIN rows[c] THEN rows[c][s] ELSE StrategyStats]],
        global |-> [s \in strategies |->
                      IF s \in DOMAIN d.strategy_bandit_global
                      THEN d.strategy_bandit_global[s] ELSE StrategyStats]]

\* quarantine.py lines 180-199: _load_from_db on a fresh lane; a NULL
\* timestamp is loaded as None
Lane_load_from_db(d) ==
    [c \in DOMAIN d.quarantine_stats |->
        [s \in DOMAIN d.quarantine_stats[c] |->
            LET row == d.quarantine_stats[c][s]
            IN [total_tries |-> row.total_tries, successes |-> row.successes,
                regressions |-> row.regressions,
                last_regression_timestamp |->
                    IF row.last_regression_ts = None THEN None
                    ELSE row.last_regression_ts]]]

\* a worker that has opened nothing; updates and outcomes count the calls it
\* has applied to each key
ClosedWorker ==
    [bandit_open |-> FALSE, lane_open |-> FALSE,
     _arms |-> <<>>, _global_stats |-> <<>>, _stats |-> <<>>,
     pc |-> "idle", context |-> None, strategy |-> None,
     updates |-> [k \in Keys |-> 0], outcomes |-> [k \in Keys |-> 0]]

CallsApplied ==
    SumOver([w \in Workers |-> SumOver(workers[w].updates, Keys)
                               + SumOver(workers[w].outcomes, Keys)], Workers)

\* what the workers leave alone
StoreFrame ==
    UNCHANGED <<profile, phase, budget, notes, touched_files, localization_hits,
                ledger, pc, proposal, decision, exec_result, gate_calls, exec_calls,
                decision2, test_history, patch_vars, bandit_vars, quarantine_vars, eval_vars,
                planner_vars>>

\* an empty database; every worker will use the same strategy set
InitStore ==
    /\ LoopIdle /\ PatchIdle /\ QuarantineIdle /\ EvalIdle /\ PlannerIdle
    /\ pc = "store"
    /\ strategies = StoreStrategies
    /\ _arms = <<>>
    /\ _global_stats = <<>>
    /\ bandit_call = NoCall
    /\ db = EmptyDb
    /\ workers = [w \in Workers |-> ClosedWorker]

\* strategy_bandit.py lines 130-165: StrategyBandit(strategies, db_path)
OpenBandit(w) ==
    /\ ~workers[w].bandit_open
    /\ LET loaded == Bandit_load_from_db(db)
       IN workers' = [workers EXCEPT ![w].bandit_open = TRUE,
                                     ![w]._arms = loaded.arms,
                                     ![w]._global_stats = loaded.global]
    /\ UNCHANGED db
    /\ StoreFrame

\* quarantine.py lines 120-150: QuarantineLane(db_path=...)
OpenLane(w) ==
    /\ ~workers[w].lane_open
    /\ workers' = [workers EXCEPT ![w].lane_open = TRUE,
                                  ![w]._stats = Lane_load_from_db(db)]
    /\ UNCHANGED db
    /\ StoreFrame

\* strategy_bandit.py lines 391-422: update changes the worker's own copy
StoreUpdate(w) ==
    /\ workers[w].bandit_open /\ workers[w].pc = "idle"
    /\ CallsApplied < MaxStoreCalls
    /\ \E ctx \in StoreContexts, s \in StoreStrategies, o \in StoreOutcomes :
          LET arms == _get_context_arms(workers[w]._arms, ctx)
          IN workers' =
                [workers EXCEPT
                    ![w]._arms = [arms EXCEPT ![ctx][s] =
                                     UpdatedStats(@, o.success, o.regression, o.partial)],
                    ![w]._global_stats[s] =
                                     UpdatedStats(@, o.success, o.regression, o.partial),
                    ![w].pc = "persist_bandit",
                    ![w].context = ctx, ![w].strategy = s,
                    ![w].updates[<<ctx, s>>] = @ + 1]
    /\ UNCHANGED db
    /\ StoreFrame

\* strategy_bandit.py lines 429-434: both rows are written in one transaction
PersistBandit(w) ==
    /\ workers[w].pc = "persist_bandit"
    /\ LET ctx == workers[w].context
           s == workers[w].strategy
       IN db' = _persist_global(_persist_one(db, ctx, s, workers[w]._arms[ctx][s]),
                                s, workers[w]._global_stats[s])
    /\ workers' = [workers EXCEPT ![w].pc = "idle", ![w].context = None,
                                  ![w].strategy = None]
    /\ StoreFrame

\* quarantine.py lines 324-336: record_outcome changes the worker's own copy
StoreRecordOutcome(w) ==
    /\ workers[w].lane_open /\ workers[w].pc = "idle"
    /\ CallsApplied < MaxStoreCalls
    /\ \E c \in StoreContexts, s \in StoreStrategies, o \in StoreOutcomes :
          workers' =
             [workers EXCEPT
                 ![w]._stats = RecordOutcomeResult(@, {}, s, c, o.success, o.regression).stats,
                 ![w].pc = "persist_lane",
                 ![w].context = c, ![w].strategy = s,
                 ![w].outcomes[<<c, s>>] = @ + 1]
    /\ UNCHANGED db
    /\ StoreFrame

\* quarantine.py lines 346-351: the row is written and committed
PersistLane(w) ==
    /\ workers[w].pc = "persist_lane"
    /\ LET c == workers[w].context
           s == workers[w].strategy
       IN db' = _persist_stats(db, c, s, workers[w]._stats[c][s])
    /\ workers' = [workers EXCEPT ![w].pc = "idle", ![w].context = None,
                                  ![w].strategy = None]
    /\ StoreFrame

NextStore ==
    \E w \in Workers :
        \/ OpenBandit(w)
        \/ OpenLane(w)
        \/ StoreUpdate(w)
        \/ PersistBandit(w)
        \/ StoreRecordOutcome(w)
        \/ PersistLane(w)

SpecStore == InitStore /\ [][NextStore]_vars

-----------------------------------------------------------------------------
(* A QuarantineLane with a database, restarted: a new lane is opened on the *)
(* database the old one wrote                                               *)

\* quarantine.py lines 201-204: the strategies of the rows of quarantine_global
Lane_load_global(d) == d.quarantine_global

\* what a lane with a database leaves alone
LaneDbFrame ==
    UNCHANGED <<profile, phase, budget, notes, touched_files, localization_hits,
                ledger, proposal, decision, exec_result, gate_calls, exec_calls,
                decision2, test_history, patch_vars, bandit_vars, workers, eval_vars,
                planner_vars>>

\* quarantine.py lines 120-150: QuarantineLane(db_path=...) on a new database
InitRestart ==
    /\ LoopIdle /\ PatchIdle /\ BanditIdle /\ EvalIdle /\ PlannerIdle
    /\ pc = "lane"
    /\ db = EmptyDb
    /\ workers = <<>>
    /\ _stats = Lane_load_from_db(db)
    /\ _global_quarantine = Lane_load_global(db)
    /\ quarantine_call = NoQuarantineCall

\* quarantine.py lines 304-353: record_outcome, the row written at lines 346-351
RecordOutcomeStored ==
    /\ pc = "lane"
    /\ pc' = "lane_returned"
    /\ TotalTries(_stats) < MaxStoreCalls
    /\ \E s \in StoreStrategies, c \in StoreContexts, o \in StoreOutcomes :
          LET r == RecordOutcomeResult(_stats, _global_quarantine, s, c,
                                       o.success, o.regression)
          IN /\ _stats' = r.stats
             /\ db' = _persist_stats(db, c, s, r.stats[c][s])
             /\ quarantine_call' = QuarantineCall("record_outcome", s, c, r.result)
    /\ UNCHANGED _global_quarantine
    /\ LaneDbFrame

\* quarantine.py lines 120-150, 180-204: the process ends and a new
\* QuarantineLane is opened on the same database
Restart ==
    /\ pc = "lane"
    /\ pc' = "lane_returned"
    /\ _stats' = Lane_load_from_db(db)
    /\ _global_quarantine' = Lane_load_global(db)
    /\ quarantine_call' = QuarantineCall("restart", None, None, FALSE)
    /\ UNCHANGED db
    /\ LaneDbFrame

NextRestart ==
    \/ RecordOutcomeStored
    \/ ForceQuarantine
    \/ ReleaseFromQuarantine
    \/ IsQuarantined
    \/ Restart
    \/ LaneReturned

SpecRestart == InitRestart /\ [][NextRestart]_vars

-----------------------------------------------------------------------------
(* eval/run.py: EvalRunner.run_batch over run_task *)

MaxTasks == 3

\* what happens inside run_task for a task: setup_repo fails, the episode
\* returns solved or unsolved, the episode raises, or a statement before the
\* try block (lines 254-301) raises
Behaviours == {"setup_fails", "solved", "unsolved", "episode_raises", "raises_before_try"}

ParallelTasks == {1, 2, 3}

\* lines 136-152: the fields of EvalResult that run_batch and run_task decide
EvalResult(task_id, success, error_message) ==
    [task_id |-> task_id, success |-> success, error_message |-> error_message]

NoResult == EvalResult(0, FALSE, None)

Returned(r) == [is_exception |-> FALSE, value |-> r, exc |-> None]
Raised(e) == [is_exception |-> TRUE, value |-> NoResult, exc |-> e]

\* lines 228-373: what run_task returns or raises for task i
run_task(i, behaviour) ==
    CASE behaviour = "setup_fails" ->
            Returned(EvalResult(i, FALSE, "Failed to setup repository"))
      [] behaviour = "solved" -> Returned(EvalResult(i, TRUE, None))
      [] behaviour = "unsolved" -> Returned(EvalResult(i, FALSE, None))
      [] behaviour = "episode_raises" -> Returned(EvalResult(i, FALSE, "episode error"))
      [] behaviour = "raises_before_try" -> Raised("setup error")

\* lines 398-411: gather's results in task order, exceptions converted
Converted(raw) ==
    [i \in DOMAIN raw |->
        IF raw[i].is_exception THEN EvalResult(i, FALSE, raw[i].exc)
        ELSE raw[i].value]

\* what run_batch leaves alone
EvalFrame ==
    UNCHANGED <<profile, phase, budget, notes, touched_files, localization_hits,
                ledger, proposal, decision, exec_result, gate_calls, exec_calls,
                decision2, test_history, patch_vars, bandit_vars, quarantine_vars, store_vars,
                planner_vars>>

\* an EvalRunner and the tasks handed to run_batch; task i has task_id i
InitEval ==
    /\ LoopIdle /\ PatchIdle /\ BanditIdle /\ QuarantineIdle /\ StoreIdle /\ PlannerIdle
    /\ pc = "batch_start"
    /\ \E n \in 1..MaxTasks : tasks \in [1..n -> Behaviours]
    /\ parallel_tasks \in ParallelTasks
    /\ semaphore = 0
    /\ task_pc = [i \in DOMAIN tasks |-> "created"]
    /\ raw_results = [i \in DOMAIN tasks |-> Raised(None)]
    /\ results = <<>>

\* lines 384-395: the mode is chosen; the semaphore starts at parallel_tasks
StartBatch ==
    /\ pc = "batch_start"
    /\ IF parallel_tasks > 1
       THEN pc' = "gather" /\ semaphore' = parallel_tasks
       ELSE pc' = "serial" /\ UNCHANGED semaphore
    /\ UNCHANGED <<tasks, parallel_tasks, task_pc, raw_results, results>>
    /\ EvalFrame

\* a task enters run_task whatever the semaphore holds
AcquireUnlimited(i) ==
    /\ pc = "gather"
    /\ task_pc[i] = "created"
    /\ semaphore' = semaphore - 1
    /\ task_pc' = [task_pc EXCEPT ![i] = "in_run_task"]
    /\ UNCHANGED <<pc, tasks, parallel_tasks, raw_results, results>>
    /\ EvalFrame

\* lines 390-392: `async with semaphore`, then run_task is entered; the await
\* of run_task is a point where the event loop may run another task
Acquire(i) ==
    /\ pc = "gather"
    /\ task_pc[i] = "created"
    /\ semaphore > 0
    /\ semaphore' = semaphore - 1
    /\ task_pc' = [task_pc EXCEPT ![i] = "in_run_task"]
    /\ UNCHANGED <<pc, tasks, parallel_tasks, raw_results, results>>
    /\ EvalFrame

\* lines 391-392: run_task returns or raises, the semaphore is released and
\* gather keeps the outcome at the task's index
RunTaskDone(i) ==
    /\ pc = "gather"
    /\ task_pc[i] = "in_run_task"
    /\ semaphore' = semaphore + 1
    /\ task_pc' = [task_pc EXCEPT ![i] = "done"]
    /\ raw_results' = [raw_results EXCEPT ![i] = run_task(i, tasks[i])]
    /\ UNCHANGED <<pc, tasks, parallel_tasks, results>>
    /\ EvalFrame

\* lines 395-411 and 418: every task has finished; run_batch returns
Collect ==
    /\ pc = "gather"
    /\ \A i \in DOMAIN tasks : task_pc[i] = "done"
    /\ results' = Converted(raw_results)
    /\ pc' = "returned"
    /\ UNCHANGED <<tasks, parallel_tasks, semaphore, task_pc, raw_results>>
    /\ EvalFrame

\* lines 414-415: the serial loop enters run_task for the next task
SerialEnter ==
    /\ pc = "serial"
    /\ Len(results) < Len(tasks)
    /\ task_pc[Len(results) + 1] = "created"
    /\ task_pc' = [task_pc EXCEPT ![Len(results) + 1] = "in_run_task"]
    /\ UNCHANGED <<pc, tasks, parallel_tasks, semaphore, raw_results, results>>
    /\ EvalFrame

\* lines 415-416: run_task returns and the result is appended, or it raises
\* and the exception leaves run_batch
SerialDone ==
    /\ pc = "serial"
    /\ Len(results) < Len(tasks)
    /\ task_pc[Len(results) + 1] = "in_run_task"
    /\ LET i == Len(results) + 1
           r == run_task(i, tasks[i])
       IN /\ task_pc' = [task_pc EXCEPT ![i] = "done"]
          /\ raw_results' = [raw_results EXCEPT ![i] = r]
          /\ IF r.is_exception
             THEN pc' = "raised" /\ UNCHANGED results
             ELSE pc' = pc /\ results' = Append(results, r.value)
    /\ UNCHANGED <<tasks, parallel_tasks, semaphore>>
    /\ EvalFrame

\* line 418: the serial loop is over; run_batch returns
SerialReturn ==
    /\ pc = "serial"
    /\ Len(results) = Len(tasks)
    /\ pc' = "returned"
    /\ UNCHANGED eval_vars
    /\ EvalFrame

NextEval ==
    \/ StartBatch
    \/ \E i \in DOMAIN tasks : Acquire(i)
    \/ \E i \in DOMAIN tasks : RunTaskDone(i)
    \/ Collect
    \/ SerialEnter
    \/ SerialDone
    \/ SerialReturn

SpecEval == InitEval /\ [][NextEval]_vars

-----------------------------------------------------------------------------
(* planner_v5/meta_planner.py: MetaPlanner.next_proposal                    *)
(* The StateTracker is held by what next_proposal reads and writes of it:   *)
(* whether a reproduction is confirmed, and whether failing tests,          *)
(* exception types and a suspect file are known.                            *)

MaxPatchesIssued == 3

PlannerPhases == {"REPRODUCE", "LOCALIZE", "PATCH", "VERIFY", "EXPAND", "STUCK"}

Trackers == [reproduction_confirmed : BOOLEAN, failing_tests : BOOLEAN,
             exception_types : BOOLEAN, suspect_file : BOOLEAN]

\* controller_feedback: None (or an empty dict), or what _process_feedback takes
\* from it: tests_failed > 0, tests_passed > 0, and whether the output names a
\* test, the traceback an exception type, the traceback a file
Feedbacks ==
    {f \in [given : BOOLEAN, tests_failed : BOOLEAN, tests_passed : BOOLEAN,
            nodeid : BOOLEAN, exc_type : BOOLEAN, tb_file : BOOLEAN] :
        ~f.given => ~(f.tests_failed \/ f.tests_passed \/ f.nodeid
                      \/ f.exc_type \/ f.tb_file)}

\* gate_rejection: None, or the rejection type of the pair
Rejections == {None, "schema_violation", "ordering_violation", "bounds_violation",
               "invariant_violation", "bogus"}

\* lines 137, 729: the reproduction _process_feedback confirmed
has_reproduction(t) == t.reproduction_confirmed

\* lines 161, 205, 699: the suspect file add_suspect_file recorded
get_top_suspect_file(t) == t.suspect_file

\* lines 767-770: _transition_phase
_transition_phase(ps, new_phase) ==
    [ps EXCEPT !.phase = new_phase, !.phase_attempts = 0]

\* lines 772-774: _record_proposal
_record_proposal(ps, p) == [ps EXCEPT !.last_proposal = p]

PlannerOutcome(ps, result, transitions, reported) ==
    [state |-> ps, result |-> result, transitions |-> transitions,
     failed_phase_reported |-> reported]

\* lines 136-221, 553-586: the phase handlers, which fall back on one another. A
\* handler entered a second time in one call sees the tracker it saw the first
\* time and takes the same branch again: the recursion does not end, and the call
\* leaves next_proposal with RecursionError.
RECURSIVE _next(_, _, _, _, _, _, _, _)
_next(fn, ps, t, mx, pivot, visited, n, reported) ==
    IF fn \in visited THEN PlannerOutcome(ps, "RecursionError", n, reported)
    ELSE CASE fn = "reproduce" ->
                IF has_reproduction(t)
                THEN _next("localize", _transition_phase(ps, "LOCALIZE"), t, mx, pivot,
                           visited \cup {fn}, n + 1, reported)
                ELSE PlannerOutcome(_record_proposal(ps, "reproduce"), "reproduce",
                                    n, reported)
           [] fn = "localize" ->
                LET ps1 == IF pivot THEN [ps EXCEPT !.phase_attempts = 0] ELSE ps
                IN IF get_top_suspect_file(t)
                   THEN PlannerOutcome(
                            _transition_phase(_record_proposal(ps1, "localize_file"),
                                              "PATCH"),
                            "localize_file", n + 1, reported)
                   ELSE IF t.exception_types
                   THEN PlannerOutcome(_record_proposal(ps1, "search_repo"),
                                       "search_repo", n, reported)
                   ELSE _next("reproduce", _transition_phase(ps1, "REPRODUCE"), t, mx,
                              pivot, visited \cup {fn}, n + 1, reported)
           [] fn = "patch" ->
                IF ps.phase_attempts >= mx
                THEN _next("localize", _transition_phase(ps, "LOCALIZE"), t, mx, pivot,
                           visited \cup {fn}, n + 1, TRUE)
                ELSE IF ~get_top_suspect_file(t)
                THEN _next("localize", _transition_phase(ps, "LOCALIZE"), t, mx, pivot,
                           visited \cup {fn}, n + 1, reported)
                ELSE PlannerOutcome(
                         _transition_phase(
                             [_record_proposal(ps, "patch")
                                 EXCEPT !.phase_attempts = @ + 1],
                             "VERIFY"),
                         "patch", n + 1, reported)
           [] fn = "verify" ->
                PlannerOutcome(_record_proposal(ps, "verify"), "verify", n, reported)
           [] fn = "expand" ->
                PlannerOutcome(_record_proposal(ps, "expand"), "expand", n, reported)
           [] OTHER -> PlannerOutcome(ps, "explain_stuck", n, reported)

\* lines 588-655: _handle_gate_rejection; repeated says that two of the last three
\* recorded rejections are schema violations
_handle_gate_rejection(ps, t, mx, rejection, pivot, repeated) ==
    IF repeated THEN PlannerOutcome(ps, "localize_file", 0, FALSE)
    ELSE IF rejection = "ordering_violation"
    THEN IF ~has_reproduction(t)
         THEN _next("reproduce", _transition_phase(ps, "REPRODUCE"), t, mx, pivot,
                    {}, 1, FALSE)
         ELSE _next("localize", _transition_phase(ps, "LOCALIZE"), t, mx, pivot,
                    {}, 1, FALSE)
    ELSE IF rejection = "bounds_violation"
    THEN _next("localize",
               _transition_phase([ps EXCEPT !.phase_attempts = 0], "LOCALIZE"),
               t, mx, pivot, {}, 1, FALSE)
    ELSE IF rejection = "invariant_violation"
    THEN PlannerOutcome(ps, "localize_file", 0, FALSE)
    ELSE _next("localize", _transition_phase(ps, "LOCALIZE"), t, mx, pivot, {}, 1, FALSE)

\* lines 673-733: _process_feedback: [state, tracker, transitions]
_process_feedback(ps, t, fb) ==
    LET t1 == [t EXCEPT
                  !.failing_tests = @ \/ (fb.tests_failed /\ fb.nodeid),
                  !.exception_types = @ \/ fb.exc_type,
                  !.suspect_file = @ \/ fb.tb_file]
        passed == ~fb.tests_failed /\ fb.tests_passed
        ps1 == IF passed THEN _transition_phase(ps, "EXPAND") ELSE ps
    IN [state |-> ps1,
        tracker |-> IF ps1.phase = "REPRODUCE" /\ fb.tests_failed
                    THEN [t1 EXCEPT !.reproduction_confirmed = TRUE] ELSE t1,
        transitions |-> IF passed THEN 1 ELSE 0]

\* lines 123-134: the handler of the phase
PhaseHandler(ph) ==
    CASE ph = "REPRODUCE" -> "reproduce"
      [] ph = "LOCALIZE" -> "localize"
      [] ph = "PATCH" -> "patch"
      [] ph = "VERIFY" -> "verify"
      [] ph = "EXPAND" -> "expand"
      [] OTHER -> "stuck"

\* lines 85-134: next_proposal; stuck is what state_tracker.is_stuck() answers
next_proposal(ps, t, mx, rejection, fb, stuck, pivot, repeated) ==
    IF rejection # None
    THEN [out |-> _handle_gate_rejection(ps, t, mx, rejection, pivot, repeated),
          tracker |-> t, dispatch |-> "gate_rejection"]
    ELSE LET fed == IF fb.given THEN _process_feedback(ps, t, fb)
                    ELSE [state |-> ps, tracker |-> t, transitions |-> 0]
             fn == IF stuck THEN "stuck" ELSE PhaseHandler(fed.state.phase)
         IN [out |-> _next(fn, fed.state, fed.tracker, mx, pivot, {},
                           fed.transitions, FALSE),
             tracker |-> fed.tracker, dispatch |-> fn]

\* what the planner leaves alone
PlannerFrame ==
    UNCHANGED <<profile, phase, budget, notes, touched_files, localization_hits,
                ledger, proposal, decision, exec_result, gate_calls, exec_calls,
                decision2, test_history, patch_vars, bandit_vars, quarantine_vars,
                store_vars, eval_vars>>

\* lines 63-83: MetaPlanner(state_tracker, max_phase_attempts)
InitPlanner ==
    /\ LoopIdle /\ PatchIdle /\ BanditIdle /\ QuarantineIdle /\ StoreIdle /\ EvalIdle
    /\ pc = "planner"
    /\ planner_state = PlannerState
    /\ max_phase_attempts \in {1, 2}
    /\ state_tracker \in Trackers
    /\ planner_call = NoPlannerCall
    /\ patches_issued = 0

\* lines 85-134: one call of next_proposal
NextProposal ==
    /\ pc = "planner"
    /\ patches_issued < MaxPatchesIssued
    /\ pc' = "planner_returned"
    /\ \E rejection \in Rejections, fb \in Feedbacks,
          stuck \in BOOLEAN, pivot \in BOOLEAN, repeated \in BOOLEAN :
          LET r == next_proposal(planner_state, state_tracker, max_phase_attempts,
                                 rejection, fb, stuck, pivot, repeated)
          IN /\ planner_state' = r.out.state
             /\ state_tracker' = r.tracker
             /\ planner_call' = [NoPlannerCall EXCEPT
                                    !.dispatch = r.dispatch,
                                    !.result = r.out.result,
                                    !.transitions = r.out.transitions,
                                    !.failed_phase_reported = r.out.failed_phase_reported]
             /\ patches_issued' =
                   IF r.out.result = "patch" THEN patches_issued + 1
                   ELSE IF r.out.state.phase = "EXPAND" THEN 0
                   ELSE patches_issued
    /\ UNCHANGED max_phase_attempts
    /\ PlannerFrame

\* the caller has the proposal; the controller runs it and calls again
PlannerReturned ==
    /\ pc = "planner_returned"
    /\ planner_call.result # "RecursionError"
    /\ pc' = "planner"
    /\ planner_call' = NoPlannerCall
    /\ UNCHANGED <<planner_state, max_phase_attempts, state_tracker, patches_issued>>
    /\ PlannerFrame

NextPlanner == NextProposal \/ PlannerReturned

SpecPlanner == InitPlanner /\ [][NextPlanner]_vars

-----------------------------------------------------------------------------
(* Claims about run_episode *)

\* C1: exec_fn is invoked in a round only after gate_fn accepted that round's
\* proposal: whenever exec_fn is called, this round's only gate call has just
\* returned accept=true for the proposal that is executed, and a round holds at
\* most one gate call and at most one execution.
C1_ExecOnlyAfterAccept ==
    /\ [](gate_calls <= 1 /\ exec_calls <= 1 /\ exec_calls <= gate_calls)
    /\ [](pc = "executed" => exec_calls = 1 /\ Accepted(decision))
    /\ [][exec_calls' = exec_calls + 1 =>
            /\ pc = "decided" /\ gate_calls = 1 /\ exec_calls = 0
            /\ Accepted(decision)
            /\ decision = gate(profile, AgentState, proposal)
            /\ proposal' = proposal]_vars

C1_Witness ==
    pc = "executed" /\ exec_calls = 1 /\ gate_calls = 1 /\ Accepted(decision)
    /\ proposal.kind = "edit"

\* C2: gate accepts a proposal only if its kind is in the allowed set of the
\* current phase (the table of the claim); an edit is never executed in Ingest,
\* Localize, TestStage or Finalize, and a finalize is executed only in Finalize.
C2_AllowedKinds(ph) ==
    CASE ph \in {"INGEST", "LOCALIZE"} -> {"inspect", "search"}
      [] ph = "PLAN" -> {"inspect", "search", "edit"}
      [] ph = "PATCH_CANDIDATES" -> {"edit", "inspect", "search"}
      [] ph = "TEST_STAGE" -> {"run_tests", "inspect"}
      [] ph = "DIAGNOSE" -> {"inspect", "search", "edit"}
      [] ph = "MINIMIZE" -> {"edit", "inspect", "run_tests"}
      [] ph = "FINALIZE" -> {"finalize", "run_tests"}
      [] OTHER -> {}

C2_PhaseLegality ==
    /\ (pc = "decided" /\ Accepted(decision) => proposal.kind \in C2_AllowedKinds(phase))
    /\ (pc = "executed" =>
          /\ proposal.kind \in C2_AllowedKinds(phase)
          /\ (proposal.kind = "edit" =>
                phase \notin {"INGEST", "LOCALIZE", "TEST_STAGE", "FINALIZE"})
          /\ (proposal.kind = "finalize" => phase = "FINALIZE"))

C2_Witness == pc = "executed" /\ proposal.kind = "finalize" /\ phase = "FINALIZE"

\* C3: whenever a proposal is accepted, no budget counter exceeds its ceiling:
\* round_idx <= max_rounds, and for the proposal's kind test_runs <= max_test_runs,
\* patch_attempts <= max_patch_attempts, model_calls <= max_model_calls.
C3_BudgetsWithinCeilingsAtAccept ==
    pc = "decided" /\ Accepted(decision) =>
        /\ budget.round_idx <= profile.max_rounds
        /\ (proposal.kind = "run_tests" => budget.test_runs <= profile.max_test_runs)
        /\ (proposal.kind = "edit" => budget.patch_attempts <= profile.max_patch_attempts)
        /\ (proposal.kind \in {"inspect", "search", "edit", "run_tests"} =>
               budget.model_calls <= profile.max_model_calls)

\* C4: whatever propose_fn, gate_fn and exec_fn do (return or raise), run_episode
\* ends in phase Done: once run_episode has stopped, state.phase is Done.
C4_EndsInDone == pc \in {"returned", "raised"} => phase = "DONE"

\* C5 as claimed: no two ledger events share a round index and the round indices
\* of consecutive ledger events increase by exactly 1.
C5_RoundsIncreaseByOne ==
    \A i \in 1..Len(ledger) :
        /\ \A j \in 1..Len(ledger) : i # j => ledger[i].round # ledger[j].round
        /\ (i > 1 => ledger[i].round = ledger[i - 1].round + 1)

\* C5 as amended: no two ledger events share a round index and the round indices
\* of ledger events are strictly increasing rounds of the episode; they increase
\* by exactly 1, one event for every round started, as long as propose_fn has not
\* raised (a round in which propose_fn raises appends no event).
C5_RoundsStrictlyIncrease ==
    /\ \A i \in 1..Len(ledger) :
          /\ ledger[i].round \in 1..budget.round_idx
          /\ (i > 1 => ledger[i].round > ledger[i - 1].round)
    /\ (pc = "top" /\ notes.last_error = None => Len(ledger) = budget.round_idx)
    /\ (notes.last_error = None => \A i \in 1..Len(ledger) : ledger[i].round = i)

C5_Witness ==
    /\ Len(ledger) = 2
    /\ ledger[1].round = 1 /\ ledger[2].round = 3
    /\ ledger[1].gate_reject /\ ~ledger[2].gate_reject


-----------------------------------------------------------------------------
(* Claims about gate *)

GateReturned == pc \in {"gate_second", "gate_done"}

ForbiddenDirNames ==
    {<<"v","e","n","d","o","r">>, <<"n","o","d","e","_","m","o","d","u","l","e","s">>,
     <<".","v","e","n","v">>, <<"d","i","s","t">>, <<"b","u","i","l","d">>,
     <<"t","a","r","g","e","t">>}

\* the forbidden directories that are a directory segment of path f
DirsOnPath(f) ==
    LET segs == Split(f, "/")
    IN {segs[i] \o <<"/">> : i \in {k \in 1..(Len(segs) - 1) : segs[k] \in ForbiddenDirNames}}

EditFiles == DictGet(proposal.inputs.files, <<>>)
EditDiff == DictGet(proposal.inputs.diff, <<>>)

TouchesForbidden ==
    /\ proposal.kind = "edit"
    /\ EditFiles.shape = "value"
    /\ \E k \in 1..Len(EditFiles.val) : DirsOnPath(EditFiles.val[k]) # {}

NamesForbiddenDir(d) ==
    /\ d.reason.msg = "Cannot edit forbidden directory"
    /\ \E k \in 1..Len(EditFiles.val) : d.reason.s \in DirsOnPath(EditFiles.val[k])

PhaseLegal == proposal.kind \in C2_AllowedKinds(phase)

BudgetLeft ==
    /\ (proposal.kind = "run_tests" => budget.test_runs < profile.max_test_runs)
    /\ (proposal.kind = "edit" => budget.patch_attempts < profile.max_patch_attempts)

FileCountOk ==
    proposal.kind = "edit" => Len(EditFiles.val) <= profile.max_files_touched

NoForbiddenDir ==
    proposal.kind = "edit" =>
        \A k \in 1..Len(EditFiles.val) : DirsOnPath(EditFiles.val[k]) = {}

DiffSizeOk == proposal.kind = "edit" => DiffLines(EditDiff.val) <= profile.max_diff_lines

\* "test" occurs in f whatever the case of its letters, or f starts with tests/
NamesTest(f) ==
    \/ \E i \in 1..(Len(f) - 3) :
          /\ f[i] \in {"t", "T"} /\ f[i + 1] \in {"e", "E"}
          /\ f[i + 2] \in {"s", "S"} /\ f[i + 3] \in {"t", "T"}
    \/ (Len(f) >= 6 /\ SubSeq(f, 1, 6) = <<"t","e","s","t","s","/">>)

TouchesTests ==
    /\ proposal.kind = "edit"
    /\ EditFiles.shape = "value"
    /\ \E k \in 1..Len(EditFiles.val) : NamesTest(EditFiles.val[k])

\* C6 as claimed: an edit whose file list has a path under a forbidden directory
\* is rejected whatever the phase, the budgets and the other inputs, and the
\* rejection reason names the forbidden directory.
C6_ForbiddenRejectedAndNamed ==
    GateReturned /\ TouchesForbidden => Rejected(decision) /\ NamesForbiddenDir(decision)

\* C6 as amended: such an edit is rejected whatever the phase, the budgets and
\* the other inputs; the reason names a forbidden directory of the file list
\* when the earlier checks pass (edit legal in the phase, patch budget left,
\* file count within max_files_touched), else it is the earlier check's reason.
C6_ForbiddenRejected ==
    GateReturned /\ TouchesForbidden =>
        /\ Rejected(decision)
        /\ (PhaseLegal /\ BudgetLeft /\ FileCountOk => NamesForbiddenDir(decision))
        /\ (~(PhaseLegal /\ BudgetLeft /\ FileCountOk) =>
               decision.reason.msg \in {"Action not allowed in phase",
                                         "Patch budget exhausted", "Too many files"})

C6_Witness ==
    /\ pc = "gate_done" /\ TouchesForbidden /\ Rejected(decision)
    /\ NamesForbiddenDir(decision)
    /\ EditFiles.val = <<F_src_build>>
    /\ decision.reason.s = S_build

\* C7: with forbid_test_modifications, gate never accepts an edit one of whose
\* files contains "test" (any case) or starts with tests/, and when all earlier
\* checks pass the reason carries an offending path; without the switch the same
\* proposal is not rejected by this check.
C7_TestModificationBan ==
    GateReturned /\ TouchesTests =>
        LET earlier == /\ PhaseLegal /\ BudgetLeft /\ FileCountOk /\ NoForbiddenDir
                       /\ EditDiff.shape = "value" /\ DiffSizeOk
        IN IF profile.forbid_test_modifications
           THEN /\ ~Accepted(decision)
                /\ (earlier =>
                      /\ Rejected(decision)
                      /\ decision.reason.msg = "Test modification forbidden by profile"
                      /\ \E k \in 1..Len(EditFiles.val) :
                            /\ decision.reason.s = EditFiles.val[k]
                            /\ NamesTest(EditFiles.val[k]))
           ELSE /\ decision.reason.msg # "Test modification forbidden by profile"
                /\ (earlier => Accepted(decision))

C7_Witness ==
    /\ pc = "gate_done" /\ profile.forbid_test_modifications
    /\ EditFiles.val = <<F_src_Test>>
    /\ Rejected(decision)
    /\ decision.reason.msg = "Test modification forbidden by profile"
    /\ decision.reason.s = F_src_Test

\* C8: gate checks phase legality, test/patch budget, file count, forbidden
\* directory, diff size, test-modification ban in this order and stops at the
\* first failure: a returned decision carries the reason of the earliest failing
\* check, and it is accept with "All constraints satisfied" exactly when no
\* check fails.
EarliestFailure ==
    IF ~PhaseLegal THEN "Action not allowed in phase"
    ELSE IF proposal.kind = "run_tests" /\ ~BudgetLeft THEN "Test budget exhausted"
    ELSE IF proposal.kind = "edit" /\ ~BudgetLeft THEN "Patch budget exhausted"
    ELSE IF ~FileCountOk THEN "Too many files"
    ELSE IF ~NoForbiddenDir THEN "Cannot edit forbidden directory"
    ELSE IF ~DiffSizeOk THEN "Diff too large"
    ELSE IF profile.forbid_test_modifications /\ TouchesTests
         THEN "Test modification forbidden by profile"
    ELSE "All constraints satisfied"

C8_FirstFailingCheck ==
    GateReturned /\ decision.raised = None =>
        /\ decision.reason.msg = EarliestFailure
        /\ (decision.accept <=> EarliestFailure = "All constraints satisfied")

C8_Witness ==
    /\ pc = "gate_done" /\ PhaseLegal /\ BudgetLeft /\ FileCountOk
    /\ ~NoForbiddenDir /\ ~DiffSizeOk /\ TouchesTests /\ profile.forbid_test_modifications
    /\ decision.reason.msg = "Cannot edit forbidden directory"

\* C9: gate is total: it returns a decision without raising for every proposal,
\* and an edit whose inputs lack 'files' or 'diff', or hold None there, is rejected.
C9_TotalAndRejectsMalformed ==
    GateReturned =>
        /\ decision.raised = None
        /\ (proposal.kind = "edit" /\ ~(proposal.inputs.files.shape = "value"
                                         /\ proposal.inputs.diff.shape = "value")
              => Rejected(decision))

RoundAdvances == pc = "executed" /\ pc' = "top"

\* the transition table as the claim states it
C11_Table(ph, kind, status, passed, has_hits) ==
    CASE ph = "INGEST" -> "LOCALIZE"
      [] ph = "LOCALIZE" -> IF has_hits THEN "PLAN" ELSE "LOCALIZE"
      [] ph = "PLAN" -> "PATCH_CANDIDATES"
      [] ph = "PATCH_CANDIDATES" /\ kind = "edit" /\ status = "ok" -> "TEST_STAGE"
      [] ph = "PATCH_CANDIDATES" /\ kind = "edit" /\ status = "fail" -> "PLAN"
      [] ph = "PATCH_CANDIDATES" /\ kind # "edit" -> "PATCH_CANDIDATES"
      [] ph = "TEST_STAGE" /\ status = "ok" /\ passed -> "MINIMIZE"
      [] ph = "TEST_STAGE" /\ ~(status = "ok" /\ passed) -> "DIAGNOSE"
      [] ph = "DIAGNOSE" -> "PLAN"
      [] ph = "MINIMIZE" -> "FINALIZE"
      [] ph = "FINALIZE" /\ kind = "finalize" -> "DONE"
      [] ph = "FINALIZE" /\ kind # "finalize" -> "FINALIZE"

\* C11: with no next_phase override, the phase after an accepted and executed
\* round is the function C11_Table of (phase, proposal kind, exec status, test
\* result passed, localization_hits non-empty) and of nothing else; in
\* particular Localize is left for Plan only when there are localization hits.
C11_DefaultTransitionTable ==
    [][RoundAdvances /\ notes.next_phase = None =>
          phase' = C11_Table(phase, proposal.kind, exec_result.status,
                             exec_result.test_result = "passed",
                             localization_hits # <<>>)]_vars

\* three executed rounds without an override or a hit end in Localize: the
\* episode started in Ingest or Localize and stayed in Localize
C11_Witness ==
    /\ pc = "top" /\ phase = "LOCALIZE" /\ localization_hits = <<>>
    /\ budget.round_idx = 3 /\ Len(ledger) = 3
    /\ \A i \in 1..3 : ~ledger[i].gate_reject /\ ledger[i].accept

\* C12: when a round advances with notes["next_phase"] holding a phase, the
\* phase becomes that value whatever the current phase, the proposal kind and
\* the exec result; the key is removed by the advance, so it is absent when the
\* next round starts, and an advance that finds no key follows the default table.
C12_OverrideAppliesOnce ==
    /\ [][pc = "executed" /\ notes.next_phase \in Phases =>
            /\ phase' = notes.next_phase
            /\ notes'.next_phase = None
            /\ pc' = "top"]_vars
    /\ [][pc = "executed" /\ pc' # "executed" => notes'.next_phase = None]_vars
    /\ [][RoundAdvances /\ notes.next_phase = None =>
            phase' = DefaultNextPhase(phase, proposal.kind, exec_result,
                                      localization_hits)]_vars

\* two executed rounds without an edit end in Diagnose: the first ended in
\* TestStage by an override, the second left TestStage by the default table
C12_Witness ==
    /\ pc = "top" /\ phase = "DIAGNOSE" /\ notes.next_phase = None
    /\ budget.round_idx = 2 /\ Len(ledger) = 2 /\ budget.patch_attempts = 0
    /\ \A i \in 1..2 : ~ledger[i].gate_reject /\ ledger[i].accept

\* C13: a round whose proposal the gate rejects ends with exactly these
\* effects: one ledger event marked gate_reject is appended, notes records the
\* rejection reason and the kind and rationale of the rejected proposal and
\* changes in nothing else, the phase becomes Plan unless it is Diagnose, which
\* stays; the budget counters and touched_files are unchanged, nothing is
\* executed and the phase-advance table is not applied (a pending next_phase
\* stays in notes).
C13_RejectEffects ==
    [][pc = "decided" /\ Rejected(decision) =>
          /\ pc' = "top"
          /\ Len(ledger') = Len(ledger) + 1
          /\ SubSeq(ledger', 1, Len(ledger)) = ledger
          /\ ledger'[Len(ledger')].gate_reject
          /\ ~ledger'[Len(ledger')].accept
          /\ ledger'[Len(ledger')].round = budget.round_idx
          /\ notes' = [notes EXCEPT
                          !.last_gate_reject = decision.reason,
                          !.last_rejected_proposal =
                              [kind |-> proposal.kind, rationale |-> proposal.rationale]]
          /\ decision.reason # NoReason
          /\ phase' = (IF phase = "DIAGNOSE" THEN "DIAGNOSE" ELSE "PLAN")
          /\ budget' = budget
          /\ touched_files' = touched_files
          /\ exec_calls' = 0
          /\ localization_hits' = localization_hits]_vars

\* a rejected edit ended a round that began in a phase other than Diagnose,
\* with an override still pending
C13_Witness ==
    /\ pc = "top" /\ phase = "PLAN" /\ notes.next_phase = "FINALIZE"
    /\ Len(ledger) = 1 /\ ledger[1].gate_reject /\ ledger[1].round = budget.round_idx
    /\ notes.last_rejected_proposal.kind = "edit"
    /\ notes.last_gate_reject.msg = "Cannot edit forbidden directory"

\* C14: when propose_fn raises, the error is recorded in notes (and nothing
\* else of notes changes), the phase is forced to Diagnose and the loop goes on
\* to the next round; the round has no gate call, no execution and no ledger
\* event, and the budget counters and touched_files are unchanged.
C14_ProposeRaises ==
    [][pc = "propose" /\ pc' # "gate" =>
          /\ pc' = "top"
          /\ notes'.last_error # None
          /\ notes' = [notes EXCEPT !.last_error = notes'.last_error]
          /\ phase' = "DIAGNOSE"
          /\ gate_calls = 0 /\ gate_calls' = 0
          /\ exec_calls = 0 /\ exec_calls' = 0
          /\ budget' = budget
          /\ touched_files' = touched_files
          /\ ledger' = ledger]_vars

\* propose_fn raised in round 1 and the episode went on: round 2 was executed
C14_Witness ==
    /\ pc = "top" /\ notes.last_error # None
    /\ budget.round_idx = 2 /\ Len(ledger) = 1
    /\ ledger[1].round = 2 /\ ~ledger[1].gate_reject

\* exec_fn raised: run_episode built the ExecResult itself
ExecRaised == pc = "executed" /\ exec_result.summary = "Execution error"

\* the files an edit proposal names
C15_Files ==
    IF proposal.inputs.files.shape = "value"
    THEN {proposal.inputs.files.val[i] : i \in 1..Len(proposal.inputs.files.val)}
    ELSE {}

\* C15: when exec_fn raises for an accepted proposal the round goes on as for
\* an ExecResult with status fail: the result has status fail, the counters of
\* the proposal's kind are incremented (run_tests: test_runs; edit:
\* patch_attempts and touched_files; inspect, search, edit, run_tests:
\* model_calls), one ledger event with exec status fail is appended and the
\* phase advances as for a failed execution (the table, or a pending override).
C15_ExecRaiseIsFail ==
    /\ [](ExecRaised => exec_result.status = "fail" /\ Accepted(decision))
    /\ [][ExecRaised =>
            /\ budget'.round_idx = budget.round_idx
            /\ budget'.test_runs =
                  budget.test_runs + (IF proposal.kind = "run_tests" THEN 1 ELSE 0)
            /\ budget'.patch_attempts =
                  budget.patch_attempts + (IF proposal.kind = "edit" THEN 1 ELSE 0)
            /\ budget'.model_calls =
                  budget.model_calls +
                  (IF proposal.kind \in {"inspect", "search", "edit", "run_tests"}
                   THEN 1 ELSE 0)
            /\ touched_files' =
                  (IF proposal.kind = "edit" THEN touched_files \cup C15_Files
                   ELSE touched_files)
            /\ Len(ledger') = Len(ledger) + 1
            /\ SubSeq(ledger', 1, Len(ledger)) = ledger
            /\ ledger'[Len(ledger')].exec_status = "fail"
            /\ ~ledger'[Len(ledger')].gate_reject
            /\ (pc' = "top" =>
                  phase' = (IF notes.next_phase = None
                            THEN C11_Table(phase, proposal.kind, "fail", FALSE,
                                           localization_hits # <<>>)
                            ELSE notes.next_phase))]_vars

\* exec_fn raised on an accepted edit in PatchCandidates and the result handed
\* to the rest of the round is a failed ExecResult
C15_Witness ==
    /\ ExecRaised /\ exec_result.status = "fail" /\ exec_calls = 1
    /\ proposal.kind = "edit" /\ phase = "PATCH_CANDIDATES"
    /\ proposal.inputs.files = Value(<<F_src_a>>)

\* C16: run_episode never propagates an exception: an error of gate_fn or of a
\* notes["next_phase"] that is no phase name becomes a result or a state update,
\* so run_episode is never left by an exception.
C16_NeverPropagates == pc # "raised"

\* C32: in every reachable state of an episode patch_attempts <=
\* max_patch_attempts and test_runs <= max_test_runs.
C32_CountersWithinBudget ==
    /\ budget.patch_attempts <= profile.max_patch_attempts
    /\ budget.test_runs <= profile.max_test_runs

\* C33: phase DONE is reached only by the round-budget check, by advancing an
\* executed finalize proposal from FINALIZE, or by a next_phase override, and
\* once it is reached the recorded stop_reason tells which: "max_rounds",
\* "finalized", or a reason recorded for the override.
C33_DoneHasStopReason ==
    [][(phase # "DONE" /\ phase' = "DONE") =>
          /\ \/ pc = "top" /\ budget.round_idx >= profile.max_rounds
             \/ pc = "executed" /\ notes.next_phase = "DONE"
             \/ pc = "executed" /\ notes.next_phase = None
                /\ phase = "FINALIZE" /\ proposal.kind = "finalize"
          /\ notes'.stop_reason # None
          /\ notes'.stop_reason = "max_rounds" <=> pc = "top"
          /\ notes'.stop_reason = "finalized" <=>
                (pc = "executed" /\ notes.next_phase = None)]_vars

\* C34: in an episode that ends with stop_reason "finalized" and uses no next_phase
\* override, no edit is executed after the last test run that reported passed
C34_FinalizedTreeIsTested ==
    notes.stop_reason = "finalized" => test_history.tree # "edited"

\* C35: in an episode that starts in Ingest and uses no next_phase override, the phase
\* is Minimize or Finalize, and stop_reason "finalized" is recorded, only after a round
\* in TestStage whose execution had status ok and a test result that passed; the round
\* that left the phase at Minimize or Finalize was an accepted execution, neither a
\* gate rejection nor a proposer failure
C35_FinalizedOnlyAfterPass ==
    /\ notes.stop_reason = "finalized" => test_history.passed_in_test_stage
    /\ phase \in {"MINIMIZE", "FINALIZE"} =>
          /\ test_history.passed_in_test_stage
          /\ pc = "top" =>
                /\ ledger # <<>>
                /\ ledger[Len(ledger)].round = budget.round_idx
                /\ ledger[Len(ledger)].accept

\* an episode from Ingest is finalized after a gate rejection on the way
C35_Witness ==
    /\ notes.stop_reason = "finalized"
    /\ phase = "DONE"
    /\ test_history.passed_in_test_stage
    /\ \E i \in 1..Len(ledger) : ~ledger[i].accept

\* the lines of a diff that begin with '+' or '-' and are not '+++'/'---' header lines
ChangedLines(diff) ==
    LET lines == SplitLines(diff)
    IN Cardinality({i \in 1..Len(lines) :
                       /\ StartsWith(lines[i], <<"+">>) \/ StartsWith(lines[i], <<"-">>)
                       /\ ~StartsWith(lines[i], <<"+", "+", "+">>)
                       /\ ~StartsWith(lines[i], <<"-", "-", "-">>)})

\* C36: for the max_diff_lines check gate counts only the diff lines that begin with
\* '+' or '-' and are not '+++'/'---' header lines: an edit that reaches the check is
\* rejected with "Diff too large" exactly when that count exceeds max_diff_lines.
C36_SizeCountsChangedLines ==
    (/\ GateReturned /\ decision.raised = None /\ proposal.kind = "edit"
     /\ PhaseLegal /\ BudgetLeft /\ FileCountOk /\ NoForbiddenDir
     /\ EditDiff.shape = "value") =>
        (decision.reason.msg = "Diff too large"
            <=> ChangedLines(EditDiff.val) > profile.max_diff_lines)

-----------------------------------------------------------------------------
(* Claims about patch validation and application *)

\* the change lines of a diff as the claims name them: a removal line begins
\* with "-" and is no "---" header, an addition line begins with "+" and is no
\* "+++" header; each is taken without its first character
RECURSIVE ChangeLines(_, _, _)
ChangeLines(lines, sign, hdr) ==
    IF lines = <<>> THEN <<>>
    ELSE IF Head(lines) # <<>> /\ Head(lines)[1] = sign /\ ~StartsWith(Head(lines), hdr)
    THEN <<Tail(Head(lines))>> \o ChangeLines(Tail(lines), sign, hdr)
    ELSE ChangeLines(Tail(lines), sign, hdr)

C17_Removals(diff) == ChangeLines(SplitLines(diff), "-", <<"-","-","-">>)
C17_Additions(diff) == ChangeLines(SplitLines(diff), "+", <<"+","+","+">>)

IsBlank(diff) == \A i \in 1..Len(diff) : diff[i] \in {" ", "\t", "\n"}

SameAfterStrip(a, b) ==
    Len(a) = Len(b) /\ \A i \in 1..Len(a) : Strip(a[i]) = Strip(b[i])

\* the diff _validate_patch was called on
ValidatedDiff == proposal.inputs.diff.val

C18_FailsValidation ==
    LET diff == DictGet(proposal.inputs.diff, <<>>)
    IN \/ diff.shape = "none"
       \/ IsBlank(diff.val)
       \/ SameAfterStrip(C17_Removals(diff.val), C17_Additions(diff.val))

\* C18: executing an edit whose diff fails validation returns ExecResult fail
\* before any application strategy is attempted: no strategy has run, no file of
\* the working tree is written and the applier has not incremented
\* patch_attempts.
C18_InvalidDiffNeverApplied ==
    (pc \in {"edit_check", "edit_apply", "edit_direct", "edit_structured", "edit_done"}
     /\ C18_FailsValidation) =>
        /\ pc = "edit_done"
        /\ exec_result.status = "fail"
        /\ attempted = <<>>
        /\ worktree = {}
        /\ budget.patch_attempts = 0

\* an edit changing whitespace only, with file headers, was refused
C18_Witness ==
    /\ pc = "edit_done" /\ exec_result.summary = "Invalid patch"
    /\ validation.error = Msg_whitespace
    /\ _extract_files_from_diff(proposal.inputs.diff.val) # {}
    /\ attempted = <<>> /\ worktree = {} /\ budget.patch_attempts = 0

\* the order of the application strategies as the claim states it
C19_Order == <<"git_apply_check", "git_apply_3way", "direct_edit", "structured_edit">>

\* C19: for a validated diff the strategies run in the fixed order strict apply,
\* three-way apply, direct substitution, structured search/replace, each one
\* exactly when all earlier ones failed: the strategies run so far are always a
\* prefix of that order, and the edit returns fail only after all four have run.
C19_FixedFallbackOrder ==
    /\ Len(attempted) <= Len(C19_Order)
    /\ attempted = SubSeq(C19_Order, 1, Len(attempted))
    /\ (pc = "edit_done" /\ validation.is_valid /\ exec_result.status = "fail" =>
           attempted = C19_Order)

\* the files the proposal lists in its 'files' input
ListedFiles ==
    LET given == DictGet(proposal.inputs.files, <<>>)
    IN IF given.shape = "value" THEN {given.val[i] : i \in 1..Len(given.val)} ELSE {}

\* the gate's decision on the proposal in the state _exec_edit was entered in
GatedAtStart ==
    gate(profile, [phase |-> phase, budget |-> BudgetState(1, 0, 0, 0)], proposal).accept

\* C31: every file that executing an accepted edit proposal modifies in the
\* working tree is one of the files listed in the proposal's 'files' input.
C31_OnlyGatedFiles ==
    GatedAtStart => worktree \subseteq ListedFiles

-----------------------------------------------------------------------------
(* Claims about the strategy bandit *)

\* select has returned an arm (it did not raise)
SelectReturned == bandit_call.op = "select" /\ bandit_call.result \in strategies

\* the non-excluded arms without a try in the context of the call
UnexploredCandidates ==
    {s \in strategies \ bandit_call.exclude :
        /\ s \in DOMAIN _arms[bandit_call.context]
        /\ _arms[bandit_call.context][s].tries = 0}

\* C20: if at least one non-excluded arm has tries = 0 in the context, the arm
\* select returns has tries = 0 in that context, for each of the methods
\* thompson, ucb and epsilon_greedy; so when exactly one such arm is left,
\* select returns it.
C20_UnexploredFirst ==
    SelectReturned /\ UnexploredCandidates # {} =>
        /\ bandit_call.method \in {"thompson", "ucb", "epsilon_greedy"}
        /\ _arms[bandit_call.context][bandit_call.result].tries = 0
        /\ (Cardinality(UnexploredCandidates) = 1 =>
               bandit_call.result \in UnexploredCandidates)

\* after update(fp1, guard_none, success=True) on a bandit of two arms,
\* select(fp1) by UCB returned the other arm
C20_Witness ==
    /\ SelectReturned /\ bandit_call.context = "fp1" /\ bandit_call.method = "ucb"
    /\ bandit_call.exclude = {}
    /\ strategies = {"guard_none", "boundary_check"}
    /\ _arms["fp1"]["guard_none"].tries = 1 /\ _arms["fp1"]["guard_none"].wins = 1
    /\ bandit_call.result = "boundary_check"

\* C21: select always returns a member of the strategy set (it never fails),
\* and the arm it returns is in exclude only when every strategy of the set is
\* excluded.
C21_SelectTotal ==
    bandit_call.op = "select" =>
        /\ bandit_call.result \in strategies
        /\ (bandit_call.result \in bandit_call.exclude =>
               strategies \subseteq bandit_call.exclude)

\* the statistics an arm has in a context: fresh ones until the first update
StatsOf(arms, ctx, s) ==
    IF ctx \in DOMAIN arms /\ s \in DOMAIN arms[ctx] THEN arms[ctx][s] ELSE StrategyStats

\* the reward of an outcome as the claim states it, in halves
C22_Reward(o) ==
    IF o.success THEN 2
    ELSE IF o.regression THEN -1
    ELSE IF o.partial.given THEN o.partial.val ELSE 0

\* the change the claim states for one StrategyStats
C22_Applied(old, new, o) ==
    LET reward == C22_Reward(o)
    IN /\ new.tries = old.tries + 1
       /\ new.total_reward = old.total_reward + reward
       /\ new.alpha = old.alpha + (IF reward > 0 THEN reward ELSE 0)
       /\ new.beta = old.beta + (IF reward > 0 THEN 0 ELSE -reward)

\* C22: update for a known strategy applies reward +1.0 on success, -0.5 on a
\* regression without success, else the partial reward (default 0.0): a positive
\* reward is added to alpha, a non-positive one adds its magnitude to beta,
\* total_reward grows by the reward and tries by exactly 1, in the per-context
\* and in the global statistics of the strategy alike, and every other
\* (context, strategy) entry is unchanged.
C22_UpdateApplies ==
    [][bandit_call'.op = "update" /\ bandit_call'.strategy \in strategies =>
          LET c == bandit_call'.context
              s == bandit_call'.strategy
              o == bandit_call'.outcome
          IN /\ c \in DOMAIN _arms' /\ s \in DOMAIN _arms'[c]
             /\ C22_Applied(StatsOf(_arms, c, s), _arms'[c][s], o)
             /\ C22_Applied(_global_stats[s], _global_stats'[s], o)
             /\ \A d \in Contexts, t \in strategies :
                   (d # c \/ t # s) => StatsOf(_arms', d, t) = StatsOf(_arms, d, t)
             /\ \A t \in strategies \ {s} : _global_stats'[t] = _global_stats[t]]_vars

\* every StrategyStats the bandit holds, per context and global
AllStats ==
    UNION {{_arms[c][s] : s \in DOMAIN _arms[c]} : c \in DOMAIN _arms}
    \cup {_global_stats[s] : s \in DOMAIN _global_stats}

\* C23: after any sequence of update calls every per-context and global
\* StrategyStats has alpha >= 1.0 and beta >= 1.0 (2 in halves), wins <= tries
\* and regressions <= tries.
C23_StatsInvariant ==
    \A st \in AllStats :
        /\ st.alpha >= 2 /\ st.beta >= 2
        /\ st.wins <= st.tries /\ st.regressions <= st.tries

\* an arm that regressed once and was then given a negative partial reward
C23_Witness ==
    \E c \in DOMAIN _arms : \E s \in DOMAIN _arms[c] :
        /\ _arms[c][s].tries = 2 /\ _arms[c][s].regressions = 1 /\ _arms[c][s].wins = 0
        /\ _arms[c][s].beta = 5 /\ _arms[c][s].total_reward = -3
        /\ _global_stats[s] = _arms[c][s]


\* the strategies registered after the arms of context c were created
LateArms(c) == IF c \in DOMAIN _arms THEN strategies \ DOMAIN _arms[c] ELSE {}

\* C37: after register_strategy(s) on a bandit that already holds statistics for a
\* context c, select(c) and update(c, s, ...) complete normally, and s is an arm of c
\* with fresh statistics (tries = 0 until s itself is updated).
C37_RegisteredArmUsable ==
    [][(/\ bandit_call'.op \in {"select", "update"}
        /\ LateArms(bandit_call'.context) # {}
        /\ bandit_call'.op = "update" => bandit_call'.strategy \in strategies) =>
          LET c == bandit_call'.context
          IN /\ bandit_call'.result # "KeyError"
             /\ \A t \in LateArms(c) :
                   /\ t \in DOMAIN _arms'[c]
                   /\ (bandit_call'.op = "update" /\ bandit_call'.strategy = t)
                         \/ _arms'[c][t].tries = 0]_vars

-----------------------------------------------------------------------------
(* Claims about the quarantine lane *)

\* the tries recorded for a strategy in a context, 0 when never recorded
RecordedTries(stats, c, s) ==
    IF c \in DOMAIN stats /\ s \in DOMAIN stats[c] THEN stats[c][s].total_tries ELSE 0

\* C24: QuarantineLane.is_quarantined(strategy, context) is true for every
\* strategy with fewer recorded tries in that context than the minimum
\* evidence, a strategy never recorded at all included.
C24_ColdStartQuarantined ==
    (/\ quarantine_call.op = "is_quarantined"
     /\ quarantine_call.context # None
     /\ RecordedTries(_stats, quarantine_call.context, quarantine_call.strategy)
           < min_successes)
    => quarantine_call.result = TRUE

\* C25 as stated: the decision over (tries, wins, regressions) is true exactly
\* when tries is below the minimum evidence, or wins is zero, or tries is
\* above the rate-check threshold and regressions / tries exceeds the maximum.
C25_DecisionAsStated ==
    quarantine_call.op = "is_quarantined_stats" =>
        LET d == quarantine_call.stats
        IN quarantine_call.result =
              (\/ d.tries < 2
               \/ d.wins = 0
               \/ (d.tries > 5 /\ 10 * d.regressions > 3 * d.tries))

\* C25: the decision over (tries, wins, regressions) is true exactly when
\* tries is below the minimum evidence, or wins is zero, or tries is at or
\* above the rate-check threshold and regressions / tries exceeds the maximum;
\* so enough tries, a win and a rate not above the maximum mean not quarantined.
C25_Decision ==
    quarantine_call.op = "is_quarantined_stats" =>
        LET d == quarantine_call.stats
        IN /\ quarantine_call.result =
                 (\/ d.tries < 2
                  \/ d.wins = 0
                  \/ (d.tries >= 5 /\ 10 * d.regressions > 3 * d.tries))
           /\ (d.tries >= 2 /\ d.wins >= 1 /\ 10 * d.regressions <= 3 * d.tries)
                 => ~quarantine_call.result

\* exactly at the rate-check threshold: 5 tries, a win, 2 regressions
C25_Witness ==
    /\ quarantine_call.op = "is_quarantined_stats"
    /\ quarantine_call.stats = [tries |-> 5, wins |-> 1, regressions |-> 2]
    /\ quarantine_call.result = TRUE

\* C26: record_outcome returns true if and only if is_quarantined(strategy,
\* context) was false immediately before the call and is true immediately
\* after it.
C26_ReturnsTransition ==
    [][quarantine_call'.op = "record_outcome" =>
          LET s == quarantine_call'.strategy
              c == quarantine_call'.context
          IN quarantine_call'.result =
                (/\ ~QuarantineLane_is_quarantined(_stats, _global_quarantine, s, c)
                 /\ QuarantineLane_is_quarantined(_stats', _global_quarantine', s, c))]_vars

\* C27: a strategy in the global set is quarantined in every context whatever
\* its statistics; record_outcome leaves the global set alone; force and
\* release change the global set by that strategy only and leave every
\* per-context statistic alone.
C27_GlobalOverrides ==
    [][/\ \A s \in _global_quarantine', c \in QContexts \cup {None} :
             QuarantineLane_is_quarantined(_stats', _global_quarantine', s, c)
       /\ (quarantine_call'.op = "is_quarantined"
           /\ quarantine_call'.strategy \in _global_quarantine)
             => quarantine_call'.result = TRUE
       /\ quarantine_call'.op = "record_outcome"
             => _global_quarantine' = _global_quarantine
       /\ quarantine_call'.op = "force_quarantine"
             => /\ _global_quarantine' = _global_quarantine \cup {quarantine_call'.strategy}
                /\ _stats' = _stats
       /\ quarantine_call'.op = "release_from_quarantine"
             => /\ _global_quarantine' = _global_quarantine \ {quarantine_call'.strategy}
                /\ _stats' = _stats]_vars

\* a forced strategy whose context statistics alone would not quarantine it
C27_Witness ==
    /\ quarantine_call.op = "is_quarantined"
    /\ quarantine_call.strategy \in _global_quarantine
    /\ quarantine_call.context \in DOMAIN _stats
    /\ quarantine_call.strategy \in DOMAIN _stats[quarantine_call.context]
    /\ ~is_quarantined(StatsDict(_stats[quarantine_call.context][quarantine_call.strategy]))
    /\ quarantine_call.result = TRUE


-----------------------------------------------------------------------------
(* Claims about persistence *)

\* the tries a table holds for a key, 0 without a row
PersistedTries(table, k, field) ==
    IF k[1] \in DOMAIN table /\ k[2] \in DOMAIN table[k[1]]
    THEN table[k[1]][k[2]][field] ELSE 0

AllIdle == \A w \in Workers : workers[w].pc = "idle"

\* C28: once the calls of the workers sharing the database have completed,
\* the persisted tries (total_tries) of every (context, strategy) key equals
\* the number of update (record_outcome) calls applied to that key: no update
\* is lost.
C28_NoLostUpdate ==
    AllIdle =>
        \A k \in Keys :
            /\ PersistedTries(db.strategy_bandit, k, "tries")
                  = SumOver([w \in Workers |-> workers[w].updates[k]], Workers)
            /\ PersistedTries(db.quarantine_stats, k, "total_tries")
                  = SumOver([w \in Workers |-> workers[w].outcomes[k]], Workers)

\* the worker other than w
Other(w) == CHOOSE v \in Workers : v # w

\* C29: a StrategyBandit opened on the database that one other instance has
\* written with its update calls starts with the per-context and global
\* statistics of that instance, and a QuarantineLane opened on it starts with
\* the per-context statistics record_outcome wrote.
C29_RestartRestores ==
    [][\A w \in Workers :
          LET v == workers[Other(w)]
          IN /\ (/\ ~workers[w].bandit_open /\ workers'[w].bandit_open
                 /\ v.bandit_open /\ v.pc = "idle")
                   => /\ workers'[w]._arms = v._arms
                      /\ workers'[w]._global_stats = v._global_stats
             /\ (/\ ~workers[w].lane_open /\ workers'[w].lane_open
                 /\ v.lane_open /\ v.pc = "idle")
                   => workers'[w]._stats = v._stats]_vars

\* a second worker has opened both objects after the first applied an update
\* and a regression outcome, and holds the first worker's statistics
C29_Witness ==
    \E w \in Workers :
        LET v == workers[Other(w)]
        IN /\ workers[w].bandit_open /\ workers[w].lane_open
           /\ SumOver(workers[w].updates, Keys) + SumOver(workers[w].outcomes, Keys) = 0
           /\ SumOver(v.updates, Keys) = 2 /\ SumOver(v.outcomes, Keys) = 1
           /\ v.pc = "idle"
           /\ workers[w]._arms = v._arms /\ workers[w]._global_stats = v._global_stats
           /\ workers[w]._stats = v._stats
           /\ \E c \in DOMAIN v._arms : \E s \in DOMAIN v._arms[c] :
                 v._arms[c][s].tries = 2 /\ v._arms[c][s].wins = 1
           /\ \E c \in DOMAIN v._stats : \E s \in DOMAIN v._stats[c] :
                 v._stats[c][s].last_regression_timestamp = "now"


\* C38: with a database configured the global quarantine set survives a restart: a
\* new QuarantineLane opened on the same database holds as globally quarantined the
\* strategies force_quarantine put there and release_from_quarantine did not remove.
C38_GlobalQuarantineSurvives ==
    [][quarantine_call'.op = "restart" => _global_quarantine' = _global_quarantine]_vars

-----------------------------------------------------------------------------
(* Claims about batch evaluation *)

InsideRunTask == {i \in DOMAIN tasks : task_pc[i] = "in_run_task"}

-----------------------------------------------------------------------------
(* Claims about the meta planner *)

\* C39: once max_phase_attempts patch proposals have been issued without the tests
\* passing, the next patch request (a call that reaches _next_patch) reports the
\* failed strategy to the learning layer and pivots to LOCALIZE instead of issuing
\* another patch.
C39_PivotAfterMaxPatches ==
    [][(/\ pc = "planner"
        /\ planner_call'.dispatch = "patch"
        /\ patches_issued >= max_phase_attempts) =>
          /\ planner_call'.result # "patch"
          /\ planner_call'.failed_phase_reported]_vars

\* C40: next_proposal returns a proposal after finitely many internal phase
\* transitions for every tracker state: the fallbacks between _next_reproduce and
\* _next_localize never cycle.
C40_NextProposalReturns ==
    planner_call.result # "RecursionError"

====
